---- MODULE Spec2Model ----
(***************************************************************************)
(* Sun position, sky irradiance and sky luminance of alinea.astk           *)
(* (meteorology/sky_luminance.py, meteorology/sky_irradiance.py,           *)
(* meteorology/sun_position.py).                                           *)
(*                                                                         *)
(* The library is a set of pure functions.  The state machine holds one    *)
(* call at a time: pc = "idle" before a call, and a call action computes   *)
(* the whole function and stores its inputs (args), its outcome (result)   *)
(* and the number of luminance evaluations it made (nEval).  Return hands  *)
(* the result to the caller and goes back to "idle".                       *)
(*                                                                         *)
(* Reals are fixed-point integers of scale S (1000 = 1.0).  Angles given   *)
(* in radians are in milliradians, angles in degrees are whole degrees,    *)
(* irradiances are in W.m-2.  The Perez coefficient tables keep the four   *)
(* decimals of the source (scale 10000).  A Python None is the empty       *)
(* tuple, a present value v is <<v>>.                                      *)
(***************************************************************************)
EXTENDS Integers, Sequences, FiniteSets

VARIABLES pc, op, args, result, nEval, turtles, weather

vars == <<pc, op, args, result, nEval, turtles, weather>>

(***************************************************************************)
(* Bounds of the model.                                                    *)
(***************************************************************************)
\* most records in a septo3D file
MaxRecords == 3

\* most hourly records in a file that is split, longest time step (hours)
\* and most time steps
MaxHours == 6

MaxTimeStep == 2

MaxSteps == 3

\* first and last year of the almanac
MinYear == 1950

MaxYear == 2099

\* longest time sequence handed to sun_position and sky_irradiances
MaxDates == 2

\* most sky directions handed to directional_irradiances
MaxDirs == 2

\* highest discretisation level of a turtle
MaxLevel == 3

\* most turtles built, and the highest level they are built at
MaxTurtles == 2

MaxTurtleLevel == 1

\* hours in a weather file
MaxRows == 2

\* names in one call of check
MaxNames == 2

(***************************************************************************)
(* Fixed-point arithmetic standing for numpy's floating point.             *)
(***************************************************************************)
S == 1000

Pi == 3142

HalfPi == 1571

None == <<>>

Some(v) == <<v>>

IsNone(x) == x = <<>>

Val(x) == x[1]

Abs(x) == IF x < 0 THEN -x ELSE x

\* division rounded to the nearest, b > 0
RDiv(a, b) == (a + b \div 2) \div b

\* product of two fixed-point numbers
Mul(a, b) == RDiv(a * b, S)

\* quotient of two fixed-point numbers, b # 0
FDiv(a, b) == IF b > 0 THEN RDiv(a * S, b) ELSE -RDiv(a * S, -b)

\* e^n, n in -8..7
EPow(n) ==
    CASE n = -8 -> 0 [] n = -7 -> 1 [] n = -6 -> 2 [] n = -5 -> 7
      [] n = -4 -> 18 [] n = -3 -> 50 [] n = -2 -> 135 [] n = -1 -> 368
      [] n = 0 -> 1000 [] n = 1 -> 2718 [] n = 2 -> 7389 [] n = 3 -> 20086
      [] n = 4 -> 54598 [] n = 5 -> 148413 [] n = 6 -> 403429
      [] n = 7 -> 1096633

RECURSIVE ExpSeries(_, _, _, _)
ExpSeries(f, k, term, acc) ==
    IF k > 8 \/ term = 0 THEN acc
    ELSE LET t == RDiv(term * f, S * k) IN ExpSeries(f, k + 1, t, acc + t)

\* numpy.exp
Exp(x) ==
    IF x < -8000 THEN 0
    ELSE LET n == RDiv(x, S)
             f == x - n * S
         IN  RDiv(EPow(n) * ExpSeries(f, 1, S, S), S)

RECURSIVE LnSearch(_, _, _)
LnSearch(x, lo, hi) ==
    IF hi - lo <= 1 THEN (IF Abs(Exp(hi) - x) < Abs(Exp(lo) - x) THEN hi ELSE lo)
    ELSE LET mid == (lo + hi) \div 2
         IN  IF Exp(mid) <= x THEN LnSearch(x, mid, hi) ELSE LnSearch(x, lo, mid)

\* natural logarithm of x > 0, the inverse of Exp
Ln(x) == LnSearch(x, -8000, 7000)

\* numpy.power(x, p) for x >= 0
Pow(x, p) == IF x = 0 THEN 0 ELSE Exp(Mul(p, Ln(x)))

RECURSIVE SinSeries(_, _, _, _)
SinSeries(x, k, term, acc) ==
    IF k > 11 \/ term = 0 THEN acc
    ELSE LET t == -RDiv(Mul(Mul(term, x), x), k * (k - 1))
         IN  SinSeries(x, k + 2, t, acc + t)

\* the angle brought back to (-Pi, Pi]
WrapPi(x) == ((x + Pi - 1) % (2 * Pi)) - Pi + 1

\* numpy.sin
Sin(x) ==
    LET w == WrapPi(x)
        r == IF w > HalfPi THEN Pi - w ELSE IF w < -HalfPi THEN -Pi - w ELSE w
    IN  SinSeries(r, 3, r, r)

\* numpy.cos
Cos(x) == Sin(x + HalfPi)

RECURSIVE SqrtSearch(_, _, _)
SqrtSearch(n, lo, hi) ==
    IF hi - lo <= 1 THEN (IF hi * hi <= n THEN hi ELSE lo)
    ELSE LET mid == (lo + hi) \div 2
         IN  IF mid * mid <= n THEN SqrtSearch(n, mid, hi) ELSE SqrtSearch(n, lo, mid)

\* integer square root of n >= 0
ISqrt(n) == SqrtSearch(n, 0, 46340)

RECURSIVE AtanSearch(_, _, _, _)
AtanSearch(y, x, lo, hi) ==
    IF hi - lo <= 1
    THEN (IF Abs(y * Cos(hi) - x * Sin(hi)) < Abs(y * Cos(lo) - x * Sin(lo)) THEN hi ELSE lo)
    ELSE LET mid == (lo + hi) \div 2
         IN  IF y * Cos(mid) - x * Sin(mid) >= 0
             THEN AtanSearch(y, x, mid, hi) ELSE AtanSearch(y, x, lo, mid)

\* numpy.arctan2(y, x) for y >= 0: the angle in [0, Pi] of the point (x, y)
Atan2(y, x) ==
    IF y = 0 THEN (IF x >= 0 THEN 0 ELSE Pi) ELSE AtanSearch(y, x, 0, Pi)

\* numpy.arccos(c) for c in [-1, 1]
Acos(c) ==
    LET cc == IF c > S THEN S ELSE IF c < -S THEN -S ELSE c
    IN  Atan2(ISqrt(S * S - cc * cc), cc)

\* numpy.radians of whole degrees
Radians(deg) == RDiv(deg * 31416, 1800)

(***************************************************************************)
(* Perez all-weather sky: coefficients (sky_luminance.aw_parameters).      *)
(***************************************************************************)
\* clearness bin edges
bins == <<1000, 1065, 1230, 1500, 1950, 2800, 4500, 6200>>

\* per-bin constants of the five coefficients, scale 10000
a1 == <<13525, -12219, -11000, -5484, -6000, -10156, -10000, -10500>>

a2 == <<-2576, -7730, -2215, -6654, -3566, -3670, 211, 289>>

a3 == <<-2690, 14148, 8952, -2672, -25000, 10078, 5025, 4260>>

a4 == <<-14366, 11016, 156, 7117, 23250, 14051, -5119, 3590>>

b1 == <<-7670, -2054, 2782, 7234, 2937, 2875, -3000, -3250>>

b2 == <<7, 367, -1812, -6219, 496, -5328, 1922, 1156>>

b3 == <<12734, -39128, -45000, -56812, -56812, -38500, 7023, 7781>>

b4 == <<-1233, 9156, 11766, 26297, 18415, 33750, -16317, 25>>

c1 == <<28000, 69750, 247219, 333389, 210000, 140000, 190000, 310625>>

c2 == <<6004, 1774, -130812, -183000, -47656, -9999, -50000, -145000>>

c3 == <<12375, 64477, -377000, -622500, -215906, -71406, 12438, -461148>>

c4 == <<10000, -1239, 348438, 520781, 72492, 75469, -19094, 553750>>

d1 == <<18734, -15798, -50000, -35000, -35000, -34000, -40000, -72312>>

d2 == <<6297, -5081, 15218, 16, -1554, -1078, 250, 4050>>

d3 == <<9738, -17812, 39229, 11477, 14062, -10750, 3844, 133500>>

d4 == <<2809, 1080, -26204, 1062, 3988, 15702, 2656, 6234>>

e1 == <<356, 2624, -156, 4659, 32, -672, 10468, 15000>>

e2 == <<-1246, 672, 1597, -3296, 766, 4016, -3788, -6426>>

e3 == <<-5718, -2190, 4199, -876, -656, 3017, -24517, 18564>>

e4 == <<9938, -4285, -5562, -329, -1294, -4844, 14656, 5636>>

\* the insertion index numpy.searchsorted(edges, v, side='right') would give
searchsorted_right(edges, v) == Cardinality({i \in 1..Len(edges) : edges[i] <= v})

\* numpy.searchsorted(edges, v): the leftmost insertion index of v in the
\* sorted edges, i.e. the number of edges strictly below v
searchsorted(edges, v) == Cardinality({i \in 1..Len(edges) : edges[i] < v})

\* max(0, .)
Max0(x) == IF x > 0 THEN x ELSE 0

\* index = max(0, numpy.searchsorted(bins, clearness) - 1), 0-based
aw_index(clearness) == Max0(searchsorted(bins, clearness) - 1)

\* _awfit: p1 + p2 * zen + br * (p3 + p4 * zen) for all the bins at once
\* (the tables are of scale 10000, the result is of scale S)
awfit(p1, p2, p3, p4, zen, br) ==
    [k \in 1..Len(p1) |->
        RDiv(p1[k] + RDiv(p2[k] * zen, S)
                   + RDiv(br * (p3[k] + RDiv(p4[k] * zen, S)), S), 10)]

\* a table constant brought to scale S
K(p) == RDiv(p, 10)

\* c of the clearness <= 1.065 branch:
\* exp(power(brightness * (c1[0] + c2[0] * z), c3[0])) - c4[0]
aw_c_overcast(z, brightness) ==
    Exp(Pow(Mul(brightness, K(c1[1]) + Mul(K(c2[1]), z)), K(c3[1]))) - K(c4[1])

\* d of the clearness <= 1.065 branch:
\* -exp(brightness * (d1[0] + d2[0] * z)) + d3[0] + d4[0] * brightness
aw_d_overcast(z, brightness) ==
    -Exp(Mul(brightness, K(d1[1]) + Mul(K(d2[1]), z))) + K(d3[1])
        + Mul(K(d4[1]), brightness)

\* aw_parameters with the special case taken on clearness < 1.065 only
aw_parameters_strict(z, clearness, brightness) ==
    LET index == aw_index(clearness)
        special == clearness < 1065
    IN  [index |-> index,
         a |-> awfit(a1, a2, a3, a4, z, brightness)[index + 1],
         b |-> awfit(b1, b2, b3, b4, z, brightness)[index + 1],
         c |-> IF special THEN aw_c_overcast(z, brightness)
               ELSE awfit(c1, c2, c3, c4, z, brightness)[index + 1],
         d |-> IF special THEN aw_d_overcast(z, brightness)
               ELSE awfit(d1, d2, d3, d4, z, brightness)[index + 1],
         e |-> awfit(e1, e2, e3, e4, z, brightness)[index + 1]]

\* aw_parameters(z, clearness, brightness): the coefficients a, b, c, d, e,
\* with the bin index it selected
aw_parameters(z, clearness, brightness) ==
    LET index == aw_index(clearness)
        special == clearness <= 1065
    IN  [index |-> index,
         a |-> awfit(a1, a2, a3, a4, z, brightness)[index + 1],
         b |-> awfit(b1, b2, b3, b4, z, brightness)[index + 1],
         c |-> IF special THEN aw_c_overcast(z, brightness)
               ELSE awfit(c1, c2, c3, c4, z, brightness)[index + 1],
         d |-> IF special THEN aw_d_overcast(z, brightness)
               ELSE awfit(d1, d2, d3, d4, z, brightness)[index + 1],
         e |-> awfit(e1, e2, e3, e4, z, brightness)[index + 1]]

(***************************************************************************)
(* CIE standard skies (sky_luminance.cie_relative_luminance).              *)
(***************************************************************************)
\* cie_luminance_gradation without the division by the zenith value phi_0
cie_luminance_gradation_raw(theta, a, b) ==
    IF Cos(theta) = 0 THEN S ELSE S + Mul(a, Exp(FDiv(b, Cos(theta))))

\* cie_luminance_gradation(theta, a, b): phi_z / phi_0
cie_luminance_gradation(theta, a, b) ==
    LET phi_0 == S + Mul(a, Exp(b))
        phi_z == IF Cos(theta) = 0 THEN S
                 ELSE S + Mul(a, Exp(FDiv(b, Cos(theta))))
    IN  FDiv(phi_z, phi_0)

\* cie_scattering_indicatrix(theta, phi, sun_zenith, sun_azimuth, c, d, e):
\* f(ksi) / f(zs), the sun position being in degrees
cie_scattering_indicatrix(theta, phi, sun_zenith, sun_azimuth, c, d, e) ==
    LET zs == Radians(sun_zenith)
        alpha_s == Radians(sun_azimuth)
        ksi == Acos(Mul(Cos(zs), Cos(theta))
                    + Mul(Mul(Sin(zs), Sin(theta)), Cos(Abs(phi - alpha_s))))
        f_ksi == S + Mul(c, Exp(Mul(d, ksi)) - Exp(Mul(d, HalfPi)))
                   + Mul(e, Mul(Cos(ksi), Cos(ksi)))
        f_zs == S + Mul(c, Exp(Mul(d, zs)) - Exp(Mul(d, HalfPi)))
                  + Mul(e, Mul(Cos(zs), Cos(zs)))
    IN  FDiv(f_ksi, f_zs)

\* what a call that raised leaves
Raised(error) == [status |-> error, value |-> 0, evals |-> 0]

\* cie_relative_luminance that looks at the sun position only once the
\* clear sky is being evaluated
cie_relative_luminance_late(theta, phi, sun_zenith, sun_azimuth, type) ==
    IF type = "soc"
    THEN [status |-> "ok", evals |-> 1,
          value |-> cie_luminance_gradation(theta, 4000, -700)]
    ELSE IF type = "uoc"
    THEN [status |-> "ok", evals |-> 1,
          value |-> cie_luminance_gradation(theta, 0, -1000)]
    ELSE IF type = "clear_sky"
    THEN IF IsNone(sun_zenith) \/ IsNone(sun_azimuth) \/ IsNone(phi)
         THEN [status |-> "TypeError", evals |-> 1, value |-> 0]
         ELSE [status |-> "ok", evals |-> 1,
               value |-> Mul(cie_luminance_gradation(theta, -1000, -320),
                             cie_scattering_indicatrix(theta, Val(phi),
                                 Val(sun_zenith), Val(sun_azimuth),
                                 10000, -3000, 450))]
    ELSE Raised("ValueError")

\* cie_relative_luminance(theta, phi, sun_zenith, sun_azimuth, type); phi and
\* the sun position may be None
cie_relative_luminance(theta, phi, sun_zenith, sun_azimuth, type) ==
    IF type = "clear_sky"
       /\ (IsNone(sun_zenith) \/ IsNone(sun_azimuth) \/ IsNone(phi))
    THEN Raised("ValueError")
    ELSE IF type = "soc"
    THEN [status |-> "ok", evals |-> 1,
          value |-> cie_luminance_gradation(theta, 4000, -700)]
    ELSE IF type = "uoc"
    THEN [status |-> "ok", evals |-> 1,
          value |-> cie_luminance_gradation(theta, 0, -1000)]
    ELSE IF type = "clear_sky"
    THEN [status |-> "ok", evals |-> 1,
          value |-> Mul(cie_luminance_gradation(theta, -1000, -320),
                        cie_scattering_indicatrix(theta, Val(phi),
                            Val(sun_zenith), Val(sun_azimuth),
                            10000, -3000, 450))]
    ELSE Raised("ValueError")

(***************************************************************************)
(* The coefficients of the module all_weather_sky                          *)
(* (all_weather_sky.aw_parameters), which takes the sun elevation.         *)
(***************************************************************************)
\* bins and a1 .. e4 of all_weather_sky.aw_parameters (bins of scale S, the
\* tables of scale 10000)
all_weather_sky_tables ==
    [bins |-> <<1000, 1065, 1230, 1500, 1950, 2800, 4500, 6200>>,
     a1 |-> <<13525, -12219, -11000, -5484, -6000, -10156, -10000, -10500>>,
     a2 |-> <<-2576, -7730, -2215, -6654, -3566, -3670, 211, 289>>,
     a3 |-> <<-2690, 14148, 8952, -2672, -25000, 10078, 5025, 4260>>,
     a4 |-> <<-14366, 11016, 156, 7117, 23250, 14051, -5119, 3590>>,
     b1 |-> <<-7670, -2054, 2782, 7234, 2937, 2875, -3000, -3250>>,
     b2 |-> <<7, 367, -1812, -6219, 496, -5328, 1922, 1156>>,
     b3 |-> <<12734, -39128, -45000, -56812, -56812, -38500, 7023, 7781>>,
     b4 |-> <<-1233, 9156, 11766, 26297, 18415, 33750, -16317, 25>>,
     c1 |-> <<28000, 69750, 247219, 333389, 210000, 140000, 190000, 310625>>,
     c2 |-> <<6004, 1774, -130812, -183000, -47656, -9999, -50000, -145000>>,
     c3 |-> <<12375, 64477, -377000, -622500, -215906, -71406, 12438, -461148>>,
     c4 |-> <<10000, -1239, 348438, 520781, 72492, 75469, -19094, 553750>>,
     d1 |-> <<18734, -15798, -50000, -35000, -35000, -34000, -40000, -72312>>,
     d2 |-> <<6297, -5081, 15218, 16, -1554, -1078, 250, 4050>>,
     d3 |-> <<9738, -17812, 39229, 11477, 14062, -10750, 3844, 133500>>,
     d4 |-> <<2809, 1080, -26204, 1062, 3988, 15702, 2656, 6234>>,
     e1 |-> <<356, 2624, -156, 4659, 32, -672, 10468, 15000>>,
     e2 |-> <<-1246, 672, 1597, -3296, 766, 4016, -3788, -6426>>,
     e3 |-> <<-5718, -2190, 4199, -876, -656, 3017, -24517, 18564>>,
     e4 |-> <<9938, -4285, -5562, -329, -1294, -4844, 14656, 5636>>]

\* aw_parametric_fit(p1, p2, p3, p4, z, brightness):
\* p1 + p2 * z + brightness * (p3 + p4 * z) for all the bins at once
aw_parametric_fit(p1, p2, p3, p4, z, brightness) ==
    [k \in 1..Len(p1) |->
        RDiv(p1[k] + RDiv(p2[k] * z, S)
                   + RDiv(brightness * (p3[k] + RDiv(p4[k] * z, S)), S), 10)]

\* all_weather_sky.aw_parameters that takes the elevation for the zenith
\* angle
all_weather_sky_aw_parameters_of_elevation(sun_elevation, clearness, brightness) ==
        LET t == all_weather_sky_tables
            z == sun_elevation
            index == Max0(searchsorted(t.bins, clearness) - 1)
            special == clearness <= 1065
        IN  [index |-> index,
             a |-> aw_parametric_fit(t.a1, t.a2, t.a3, t.a4, z, brightness)[index + 1],
             b |-> aw_parametric_fit(t.b1, t.b2, t.b3, t.b4, z, brightness)[index + 1],
             c |-> IF special
                   THEN Exp(Pow(Mul(brightness, K(t.c1[1]) + Mul(K(t.c2[1]), z)),
                                K(t.c3[1]))) - K(t.c4[1])
                   ELSE aw_parametric_fit(t.c1, t.c2, t.c3, t.c4, z, brightness)[index + 1],
             d |-> IF special
                   THEN -Exp(Mul(brightness, K(t.d1[1]) + Mul(K(t.d2[1]), z)))
                            + K(t.d3[1]) + Mul(K(t.d4[1]), brightness)
                   ELSE aw_parametric_fit(t.d1, t.d2, t.d3, t.d4, z, brightness)[index + 1],
             e |-> aw_parametric_fit(t.e1, t.e2, t.e3, t.e4, z, brightness)[index + 1]]

\* all_weather_sky.aw_parameters(sun_elevation, clearness, brightness), the
\* elevation in radians, with the bin index it selected
all_weather_sky_aw_parameters(sun_elevation, clearness, brightness) ==
        LET t == all_weather_sky_tables
            z == HalfPi - sun_elevation
            index == Max0(searchsorted(t.bins, clearness) - 1)
            special == clearness <= 1065
        IN  [index |-> index,
             a |-> aw_parametric_fit(t.a1, t.a2, t.a3, t.a4, z, brightness)[index + 1],
             b |-> aw_parametric_fit(t.b1, t.b2, t.b3, t.b4, z, brightness)[index + 1],
             c |-> IF special
                   THEN Exp(Pow(Mul(brightness, K(t.c1[1]) + Mul(K(t.c2[1]), z)),
                                K(t.c3[1]))) - K(t.c4[1])
                   ELSE aw_parametric_fit(t.c1, t.c2, t.c3, t.c4, z, brightness)[index + 1],
             d |-> IF special
                   THEN -Exp(Mul(brightness, K(t.d1[1]) + Mul(K(t.d2[1]), z)))
                            + K(t.d3[1]) + Mul(K(t.d4[1]), brightness)
                   ELSE aw_parametric_fit(t.d1, t.d2, t.d3, t.d4, z, brightness)[index + 1],
             e |-> aw_parametric_fit(t.e1, t.e2, t.e3, t.e4, z, brightness)[index + 1]]

(***************************************************************************)
(* Perez all-weather sky: relative luminance                               *)
(* (sky_luminance.aw_relative_luminance).                                  *)
(***************************************************************************)
\* cartesian(theta, phi): the unit vector of a direction
cartesian(theta, phi) ==
    <<Mul(Sin(theta), Cos(phi)), Mul(Sin(theta), Sin(phi)), Cos(theta)>>

\* numpy.dot of two vectors
Dot(u, v) == Mul(u[1], v[1]) + Mul(u[2], v[2]) + Mul(u[3], v[3])

\* numpy.linalg.norm(numpy.cross(u, v))
CrossNorm(u, v) ==
    LET x == Mul(u[2], v[3]) - Mul(u[3], v[2])
        y == Mul(u[3], v[1]) - Mul(u[1], v[3])
        z == Mul(u[1], v[2]) - Mul(u[2], v[1])
    IN  ISqrt(x * x + y * y + z * z)

\* sky_luminance.angle(a, b): arctan2(norm(cross(a, b)), norm(dot(a, b)));
\* the norm of the scalar product is its absolute value
angle(u, v) == Atan2(CrossNorm(u, v), Abs(Dot(u, v)))

\* all_weather_sky.angle(a, b): arctan2(norm(cross(a, b)), dot(a, b)), the
\* scalar product keeping its sign
all_weather_sky_angle(u, v) == Atan2(CrossNorm(u, v), Dot(u, v))

\* _lum(t, g) of aw_relative_luminance for the coefficients p
aw_lum(p, t, g) ==
    Mul(S + Mul(p.a, Exp(FDiv(p.b, Cos(t)))),
        S + Mul(p.c, Exp(Mul(p.d, g))) + Mul(p.e, Mul(Cos(g), Cos(g))))

\* aw_relative_luminance(theta, phi, sun_zenith, sun_azimuth, clearness,
\* brightness) for one sky state, the sun position being in degrees
aw_relative_luminance(theta, phi, sun_zenith, sun_azimuth, clearness, brightness) ==
    LET z == Radians(sun_zenith)
        az == Radians(sun_azimuth)
        p == aw_parameters(z, clearness, brightness)
        sun == cartesian(z, az)
        element == cartesian(theta, phi)
        gamma == Abs(angle(element, sun))
    IN  FDiv(aw_lum(p, theta, gamma), aw_lum(p, 0, Abs(z)))

(***************************************************************************)
(* Irradiance of a set of sky directions                                   *)
(* (sky_luminance.directional_irradiances).                                *)
(***************************************************************************)
RECURSIVE SumSeq(_)
SumSeq(q) == IF q = <<>> THEN 0 ELSE Head(q) + SumSeq(Tail(q))

\* directional_irradiances that evaluates the luminances before it looks at
\* its inputs
directional_irradiances_unchecked(dirs, ghi, model, sun_zenith, sun_azimuth, clearness, brightness) ==
    IF \E x \in {ghi, sun_zenith, sun_azimuth, clearness, brightness} : IsNone(x)
    THEN [status |-> "TypeError", value |-> <<>>, evals |-> Len(dirs)]
    ELSE LET r_irrt == [i \in 1..Len(dirs) |->
                          Mul(aw_relative_luminance(dirs[i][1], dirs[i][2],
                                  Val(sun_zenith), Val(sun_azimuth),
                                  Val(clearness), Val(brightness)),
                              Cos(dirs[i][1]))]
             sky_irrt == SumSeq(r_irrt)
         IN  [status |-> "ok", evals |-> Len(dirs),
              value |-> [i \in 1..Len(dirs) |-> FDiv(r_irrt[i], sky_irrt) * Val(ghi)]]

\* directional_irradiances(theta, phi, ghi, model, sun_zenith, sun_azimuth,
\* clearness, brightness) for one sky state; dirs are the (theta, phi) pairs,
\* the result is in mW.m-2
directional_irradiances(dirs, ghi, model, sun_zenith, sun_azimuth, clearness, brightness) ==
    IF model = "all_weather"
    THEN IF \E x \in {ghi, sun_zenith, sun_azimuth, clearness, brightness} : IsNone(x)
         THEN [status |-> "ValueError", value |-> <<>>, evals |-> 0]
         ELSE LET r_irrt == [i \in 1..Len(dirs) |->
                               Mul(aw_relative_luminance(dirs[i][1], dirs[i][2],
                                       Val(sun_zenith), Val(sun_azimuth),
                                       Val(clearness), Val(brightness)),
                                   Cos(dirs[i][1]))]
                  sky_irrt == SumSeq(r_irrt)
              IN  [status |-> "ok", evals |-> Len(dirs),
                   value |-> [i \in 1..Len(dirs) |->
                                 FDiv(r_irrt[i], sky_irrt) * Val(ghi)]]
    ELSE IF model = "cie_soc"
    THEN \* r_irrt is a list of lists: r / sky_irrt divides a list by a list
         IF dirs = <<>> THEN [status |-> "ok", value |-> <<>>, evals |-> 0]
         ELSE IF IsNone(ghi) THEN [status |-> "TypeError", value |-> <<>>, evals |-> 1]
         ELSE [status |-> "TypeError", value |-> <<>>, evals |-> Len(dirs)]
    ELSE [status |-> "ValueError", value |-> <<>>, evals |-> 0]

(***************************************************************************)
(* Sun position (sun_position.sun_position).  The angles come from pvlib,  *)
(* ephem or the module's own equations: the elevation of the sun at each   *)
(* date is an input of the model, dates are numbered 1, 2, ... in order.   *)
(***************************************************************************)
\* the sun azimuth (degrees) the provider gives at date t
AzimuthAt(t) == 60 * t

\* the frame before the night filter: one row per date, indexed by the date
SunRows(dates, elevation) ==
    [i \in 1..Len(dates) |->
        [t |-> dates[i], elevation |-> elevation[i],
         zenith |-> 90 - elevation[i], azimuth |-> AzimuthAt(dates[i])]]

IsDay(row) == row.elevation > 0

IsNotBelow(row) == row.elevation >= 0

\* sun_position whose night filter keeps the sun on the horizon
sun_position_horizon(dates, elevation, method, filter_night) ==
    IF method \notin {"pvlib", "ephem", "astk"}
    THEN [status |-> "ValueError", rows |-> <<>>]
    ELSE [status |-> "ok",
          rows |-> IF filter_night
                   THEN SelectSeq(SunRows(dates, elevation), IsNotBelow)
                   ELSE SunRows(dates, elevation)]

\* sun_position(dates, latitude, longitude, altitude, timezone, method,
\* filter_night)
sun_position(dates, elevation, method, filter_night) ==
    IF method \notin {"pvlib", "ephem", "astk"}
    THEN [status |-> "ValueError", rows |-> <<>>]
    ELSE [status |-> "ok",
          rows |-> IF filter_night
                   THEN SelectSeq(SunRows(dates, elevation), IsDay)
                   ELSE SunRows(dates, elevation)]

(***************************************************************************)
(* Day length (sun_position.daylength) and the declination of the sun it   *)
(* rests on.  Angles of the almanac are in thousandths of a degree.        *)
(***************************************************************************)
\* numpy.radians of thousandths of a degree
RadiansOf(mdeg) == RDiv(RDiv(mdeg, 10) * 17453, 100000)

\* numpy.arcsin(s) for s in [-1, 1]
Asin(s) == HalfPi - Acos(s)

\* the tangent of a right angle as numpy gives it, a large finite number
Huge == 1000 * S

\* numpy.tan
Tan(x) ==
    LET c == Cos(x)
    IN  IF c = 0 THEN (IF Sin(x) >= 0 THEN Huge ELSE -Huge) ELSE FDiv(Sin(x), c)

\* julian_date(12, dayofyear, year) - 2451545: the days since 1 January 2000
\* at noon
DaysSince2000(dayofyear, year) ==
    LET delta == year - 1949
    IN  delta * 365 + (delta \div 4) + dayofyear - 18628

\* ecliptic_longitude(12, dayofyear, year)
ecliptic_longitude(dayofyear, year) ==
    LET n == DaysSince2000(dayofyear, year)
        L == (280460 + n * 1000 - RDiv(n * 143526, 10000)) % 360000
        g == (357528 + n * 1000 - RDiv(n * 143997, 10000)) % 360000
    IN  L + Mul(1915, Sin(RadiansOf(g))) + Mul(20, Sin(RadiansOf(2 * g)))

\* declination(12, dayofyear, year), radians
declination(dayofyear, year) ==
    LET n == DaysSince2000(dayofyear, year)
        obliquity == 23439 - RDiv(n * 4, 10000)
        l == ecliptic_longitude(dayofyear, year)
    IN  Asin(Mul(Sin(RadiansOf(obliquity)), Sin(RadiansOf(l))))

\* daylength(dayofyear, year, latitude): hours, or not a number when the
\* argument of the arcsin is outside [-1, 1]
daylength(dayofyear, year, latitude) ==
    LET lat == Radians(latitude)
        dec == declination(dayofyear, year)
        x == Tan(lat) - Tan(dec)
    IN  IF x > S \/ x < -S THEN [nan |-> TRUE, hours |-> 0]
        ELSE [nan |-> FALSE, hours |-> 12 * S + RDiv(24 * S * Asin(x), Pi)]

(***************************************************************************)
(* Sky irradiances (sky_irradiance.sky_irradiances).  ghi and dhi are      *)
(* columns indexed by the dates: assigning one to the frame aligns it on   *)
(* the frame's index.  Irradiances are whole W.m-2.  The module passes a   *)
(* daydate keyword to sun_position and imports sun_extraradiation, which   *)
(* sun_position.py does not define; the model follows the dates argument   *)
(* and takes the extraterrestrial irradiance as the solar constant.        *)
(***************************************************************************)
\* a float column value: a number, nan, inf, or None
Num(v) == [kind |-> "num", v |-> v]

NaN == [kind |-> "nan", v |-> 0]

Inf == [kind |-> "inf", v |-> 0]

Missing == [kind |-> "none", v |-> 0]

\* horizontal_irradiance(normal_irradiance, elevation)
horizontal_irradiance(normal, elevation) ==
    RDiv(normal * Sin(Radians(elevation)), S)

\* normal_irradiance(horizontal_irradiance, elevation), elevation > 0
normal_irradiance(horizontal, elevation) ==
    LET s == Sin(Radians(elevation))
    IN  IF horizontal >= 0 THEN RDiv(horizontal * S, s) ELSE -RDiv(-horizontal * S, s)

\* air_mass(zenith, altitude): pvlib's relative air mass, here 1 / cos(zenith)
air_mass(zenith) == FDiv(S, Cos(Radians(zenith)))

\* sun_extraradiation(dates): the extraterrestrial normal irradiance
dni_extra == 1367

\* clearness(dni, dhi, sun_zenith):
\* ((dhi + dni) / dhi + 1.041 * z**3) / (1 + 1.041 * z**3)
perez_clearness(dni, dhi, sun_zenith) ==
    LET z == Radians(sun_zenith)
        kz3 == Mul(1041, Mul(z, Mul(z, z)))
    IN  IF dhi = 0 THEN (IF dni = 0 THEN NaN ELSE Inf)
        ELSE Num(FDiv(FDiv(dhi + dni, dhi) + kz3, S + kz3))

\* brightness(air_mass, dhi, dni_extra): air_mass * dhi / dni_extra
perez_brightness(am, dhi, extra) == Num(RDiv(am * dhi, extra))

\* pvlib.clearsky.ineichen: the clear-sky ghi of a row, given by cs
\* pvlib.irradiance.dirint: the dni that makes the share direct of ghi
dirint(ghi, elevation, direct) ==
    IF ghi <= 0 THEN 0 ELSE normal_irradiance(Mul(ghi, direct), elevation)

\* actual_sky_irradiances with dhi = ghi - dni, the direct irradiance taken
\* on the plane normal to the sun
actual_sky_irradiances_normal(rows, ghi, attenuation, cs, direct) ==
    [i \in 1..Len(rows) |->
        LET r == rows[i]
            g0 == IF IsNone(ghi) THEN cs ELSE Val(ghi)[r.t]
            g == IF IsNone(attenuation) THEN g0 ELSE Mul(g0, Val(attenuation))
            dni == dirint(g, r.elevation, direct)
        IN  [ghi |-> g, dni |-> dni, dhi |-> g - dni]]

\* actual_sky_irradiances on the rows of the frame: ghi (given, or the clear
\* sky's), attenuated, dni by dirint and dhi = ghi - dni * sin(elevation)
actual_sky_irradiances(rows, ghi, attenuation, cs, direct) ==
    [i \in 1..Len(rows) |->
        LET r == rows[i]
            g0 == IF IsNone(ghi) THEN cs ELSE Val(ghi)[r.t]
            g == IF IsNone(attenuation) THEN g0 ELSE Mul(g0, Val(attenuation))
            dni == dirint(g, r.elevation, direct)
        IN  [ghi |-> g, dni |-> dni,
             dhi |-> g - horizontal_irradiance(dni, r.elevation)]]

\* a row of the result: the sun position with the irradiances and indices
SkyRow(r, ghi, dni, dhi, cl, br) ==
    [t |-> r.t, azimuth |-> r.azimuth, zenith |-> r.zenith,
     elevation |-> r.elevation, clearness |-> cl, brightness |-> br,
     ghi |-> ghi, dni |-> dni, dhi |-> dhi]

HasLight(row) == row.ghi > 0

\* the twilight rows: every date, dhi = ghi, dni = 0, no indices, ghi > 0
TwilightRows(dates, elevation, ghi) ==
    SelectSeq([i \in 1..Len(dates) |->
                  SkyRow(SunRows(dates, elevation)[i], Val(ghi)[dates[i]], 0,
                         Val(ghi)[dates[i]], Missing, Missing)],
              HasLight)

\* the rows with their brightness and clearness
WithIndices(rows, irr) ==
    [i \in 1..Len(rows) |->
        SkyRow(rows[i], irr[i].ghi, irr[i].dni, irr[i].dhi,
               perez_clearness(irr[i].dni, irr[i].dhi, rows[i].zenith),
               perez_brightness(air_mass(rows[i].zenith), irr[i].dhi, dni_extra))]

\* sky_irradiances(dates, ghi, dhi, attenuation, ...): elevation is the
\* sun's at each date, cs the clear-sky ghi and direct the direct share of
\* ghi that pvlib gives
sky_irradiances(dates, elevation, ghi, dhi, attenuation, cs, direct) ==
    LET df == sun_position(dates, elevation, "pvlib", TRUE).rows
        n == Len(dates)
        m == Len(df)
    IN  IF IsNone(ghi) \/ IsNone(dhi)
        THEN LET irr == actual_sky_irradiances(df, ghi, attenuation, cs, direct)
             IN  IF m < 1 /\ ~IsNone(ghi)
                 THEN [status |-> "ok", twilight |-> TRUE,
                       rows |-> TwilightRows(dates, elevation, ghi)]
                 ELSE [status |-> "ok", twilight |-> FALSE,
                       rows |-> WithIndices(df, irr)]
        ELSE \* numpy.array(ghi) - numpy.array(dhi) has one value per date,
             \* df.elevation one per row left: the shapes must agree
             IF ~(n = m \/ (n = 1 /\ m = 0))
             THEN [status |-> "ValueError", twilight |-> FALSE, rows |-> <<>>]
             ELSE IF m < 1
             THEN [status |-> "ok", twilight |-> TRUE,
                   rows |-> TwilightRows(dates, elevation, ghi)]
             ELSE [status |-> "ok", twilight |-> FALSE,
                   rows |-> WithIndices(df,
                       [i \in 1..m |->
                           [ghi |-> Val(ghi)[df[i].t], dhi |-> Val(dhi)[df[i].t],
                            dni |-> normal_irradiance(Val(ghi)[i] - Val(dhi)[i],
                                                      df[i].elevation)]])]

(***************************************************************************)
(* Sun and sky light sources (sun_and_sky: sky_discretisation,             *)
(* sky_radiance_distribution, sky_sources, sun_sources, sun_sky_sources).  *)
(* Of this module the repository at hand holds the tests and the callers   *)
(* only; its functions are written here after their description: the       *)
(* relative luminance of each turtle direction weighted by the direction's *)
(* fraction, normalised, and scaled to the requested total.  Relative      *)
(* irradiances are in 1/Unit, irradiances in 0.1 W.m-2.                    *)
(***************************************************************************)
\* the number of directions of the default turtle ('turtle46')
TurtleSize == 46

\* the number of faces of the turtle of a discretisation level
turtle_face_count(level) == 20 * 4^level

\* the total 1 of a relative normalisation
Unit == 10 * S

\* elevation (degrees) of the i-th direction of the turtle: rings of 15, 15,
\* 10 and 5 directions and the zenith
FaceElevation(i) ==
    IF i <= 15 THEN 10 ELSE IF i <= 30 THEN 30 ELSE IF i <= 40 THEN 50
    ELSE IF i <= 45 THEN 70 ELSE 90

\* azimuth (degrees) of the i-th direction of the turtle
FaceAzimuth(i) ==
    IF i <= 15 THEN 24 * (i - 1) ELSE IF i <= 30 THEN 24 * (i - 16) + 12
    ELSE IF i <= 40 THEN 36 * (i - 31) ELSE IF i <= 45 THEN 72 * (i - 41) + 36
    ELSE 0

\* sky_discretisation(): elevation, azimuth and fraction of each direction
sky_discretisation ==
    [i \in 1..TurtleSize |->
        [elevation |-> FaceElevation(i), azimuth |-> FaceAzimuth(i),
         fraction |-> 1]]

Always(x) == TRUE

\* the array of the values of q, each computed once
Array(q) == SelectSeq(q, Always)

\* F of the value of e, which is computed once
Eval(e, F(_)) == CHOOSE r \in {F(x) : x \in {e}} : TRUE

\* the parts of q (each >= 0, their sum > 0) scaled so that they total N
normalise(q, N) ==
    Eval(Array(q), LAMBDA v :
        Eval(SumSeq(v), LAMBDA total :
            Array([i \in 1..Len(v) |-> RDiv(v[i] * N, total)])))

\* the relative luminance of a turtle direction under a CIE sky
face_luminance(face, sky_type, sun_elevation, sun_azimuth) ==
    cie_relative_luminance(Radians(90 - face.elevation),
                           Some(Radians(face.azimuth)),
                           Some(90 - sun_elevation), Some(sun_azimuth),
                           sky_type).value

\* sky_radiance_distribution(elevation, azimuth, fraction, sky_type,
\* sun_elevation, sun_azimuth): the share of each direction, of total 1
sky_radiance_distribution(faces, sky_type, sun_elevation, sun_azimuth) ==
    normalise([i \in 1..Len(faces) |->
                  face_luminance(faces[i], sky_type, sun_elevation, sun_azimuth)
                      * faces[i].fraction],
              Unit)

\* the sources of the directions of the turtle with the given irradiances
Sources(faces, irr) ==
    Eval(<<faces, irr>>, LAMBDA a :
        [i \in 1..Len(a[1]) |->
            [elevation |-> a[1][i].elevation, azimuth |-> a[1][i].azimuth,
             irradiance |-> a[2][i]]])

\* sky_sources that leaves the zenith direction out
sky_sources_rings(sky_type, irradiance, dhi, sun_elevation, sun_azimuth) ==
    LET faces == SubSeq(sky_discretisation, 1, TurtleSize - 1)
    IN  Eval(sky_radiance_distribution(faces, sky_type, sun_elevation, sun_azimuth),
             LAMBDA d :
                 Sources(faces,
                         IF IsNone(irradiance)
                         THEN Array([i \in 1..Len(d) |-> RDiv(dhi * d[i], S)])
                         ELSE normalise(d, Val(irradiance))))

\* sky_sources(sky_type, irradiance, ...): one source per turtle direction,
\* of total irradiance when it is given and of total dhi when it is None
sky_sources(sky_type, irradiance, dhi, sun_elevation, sun_azimuth) ==
    LET faces == sky_discretisation
    IN  Eval(sky_radiance_distribution(faces, sky_type, sun_elevation, sun_azimuth),
             LAMBDA d :
                 Sources(faces,
                         IF IsNone(irradiance)
                         THEN Array([i \in 1..Len(d) |-> RDiv(dhi * d[i], S)])
                         ELSE normalise(d, Val(irradiance))))
\* the horizontal irradiance of the sun of each row of a sky_irradiances
\* frame
SunIrradiances(rows) ==
    Eval(rows, LAMBDA r :
        Array([i \in 1..Len(r) |->
                  10 * horizontal_irradiance(r[i].dni, r[i].elevation)]))

\* the sun sources of the rows of a frame with the given irradiances
SunSources(rows, irr) ==
    Eval(<<rows, irr>>, LAMBDA a :
        [i \in 1..Len(a[1]) |->
            [elevation |-> a[1][i].elevation, azimuth |-> a[1][i].azimuth,
             irradiance |-> a[2][i]]])

\* sun_sources(irradiance, dates, ...): one source per date of the clear sky
\* with the sun up, of total irradiance when it is given and of the direct
\* horizontal irradiance of each date when it is None
sun_sources(irradiance, dates, elevation, cs, direct) ==
    Eval(sky_irradiances(dates, elevation, None, None, None, cs, direct).rows,
         LAMBDA rows :
             SunSources(rows, IF IsNone(irradiance) THEN SunIrradiances(rows)
                              ELSE normalise(SunIrradiances(rows), Val(irradiance))))

\* the share of the clear sky in a blended sky:
\* f_clear = min(1, (clearness - 1) / (1.41 - 1))
f_clear(cl) ==
    IF cl.kind # "num" THEN S
    ELSE LET f == FDiv(cl.v - S, 410)
         IN  IF f > S THEN S ELSE IF f < 0 THEN 0 ELSE f

\* the share of each turtle direction in the sky of a row, for a model
SkyShares(faces, row, model) ==
    Eval(sky_radiance_distribution(faces, "soc", row.elevation, row.azimuth),
         LAMBDA soc :
             IF model = "blended"
             THEN Eval(<<sky_radiance_distribution(faces, "clear_sky", row.elevation,
                                                   row.azimuth),
                         f_clear(row.clearness)>>,
                       LAMBDA c :
                           Array([j \in 1..Len(faces) |->
                                     RDiv(c[2] * c[1][j] + (S - c[2]) * soc[j], S)]))
             ELSE soc)

\* the irradiance of each turtle direction: the dhi of every row spread on
\* the directions
SkyIrradiances(faces, rows, model) ==
    Eval(Array([i \in 1..Len(rows) |-> SkyShares(faces, rows[i], model)]),
         LAMBDA shares :
             Array([j \in 1..Len(faces) |->
                       SumSeq([i \in 1..Len(rows) |->
                                  RDiv(rows[i].dhi * shares[i][j], S)])]))

\* sun_sky_sources with the sun and the sky each scaled to the total
sun_sky_sources_apart(dates, elevation, ghi, dhi, attenuation, cs, direct, model, normalisation) ==
    Eval(sky_irradiances(dates, elevation, ghi, dhi, attenuation, cs, direct).rows,
         LAMBDA rows :
    Eval(<<SunIrradiances(rows), SkyIrradiances(sky_discretisation, rows, model)>>,
         LAMBDA irr :
             IF IsNone(normalisation)
             THEN [sun |-> SunSources(rows, irr[1]),
                   sky |-> Sources(sky_discretisation, irr[2])]
             ELSE [sun |-> SunSources(rows, normalise(irr[1], Val(normalisation))),
                   sky |-> Sources(sky_discretisation,
                                   normalise(irr[2], Val(normalisation)))]))

\* sun_sky_sources(ghi, dhi, attenuation, model, normalisation, dates, ...):
\* the sun sources and the sky sources of the sky irradiances of the dates,
\* sun plus sky scaled to the total normalisation when it is given
sun_sky_sources(dates, elevation, ghi, dhi, attenuation, cs, direct, model, normalisation) ==
    Eval(sky_irradiances(dates, elevation, ghi, dhi, attenuation, cs, direct).rows,
         LAMBDA rows :
    Eval(<<SunIrradiances(rows), SkyIrradiances(sky_discretisation, rows, model)>>,
         LAMBDA irr :
    Eval(SumSeq(irr[1]) + SumSeq(irr[2]),
         LAMBDA total :
             IF IsNone(normalisation)
             THEN [sun |-> SunSources(rows, irr[1]),
                   sky |-> Sources(sky_discretisation, irr[2])]
             ELSE [sun |-> SunSources(rows,
                               [i \in 1..Len(irr[1]) |->
                                   RDiv(irr[1][i] * Val(normalisation), total)]),
                   sky |-> Sources(sky_discretisation,
                               [j \in 1..Len(irr[2]) |->
                                   RDiv(irr[2][j] * Val(normalisation), total)])])))

(***************************************************************************)
(* The sky turtle (sky_turtle.SkyTurtle).  turtle_dome and sample_faces    *)
(* belong to icosphere, which is not at hand: a dome is written here as    *)
(* the vertices and the triangular faces of a discretisation level, a      *)
(* sample as a direction (theta, phi) inside a face.                       *)
(***************************************************************************)
\* the number of vertices of the turtle of a discretisation level
turtle_vertex_count(level) == 10 * 4^level + 2

\* icosphere.turtle_dome(level): vertices (theta, phi) and faces (three
\* vertex numbers each)
turtle_dome(level) ==
    LET nv == turtle_vertex_count(level)
        nf == turtle_face_count(level)
    IN  [vertices |-> Array([v \in 1..nv |->
                                <<(HalfPi * v) \div nv, (2 * Pi * v) \div nv>>]),
         faces |-> Array([f \in 1..nf |->
                             <<(f % nv) + 1, ((f + 1) % nv) + 1, ((f + 2) % nv) + 1>>])]

\* the number of samples sample_faces takes in each face
SamplesPerFace(iter) == IF IsNone(iter) THEN 1 ELSE 4^Val(iter)

\* icosphere.sample_faces(vertices, faces, iter, spheric=True): the sample
\* directions of the faces, face after face, and the tag of each sample, the
\* number of its face
sample_faces(vertices, faces, iter) ==
    LET k == SamplesPerFace(iter)
        FaceOf(i) == ((i - 1) \div k) + 1
        Centre(f, c) == (vertices[faces[f][1]][c] + vertices[faces[f][2]][c]
                            + vertices[faces[f][3]][c]) \div 3
    IN  [directions |-> Array([i \in 1..(k * Len(faces)) |->
                                  <<Centre(FaceOf(i), 1) + ((i - 1) % k),
                                    Centre(FaceOf(i), 2) + ((i - 1) % k)>>]),
         tags |-> Array([i \in 1..(k * Len(faces)) |-> FaceOf(i)])]

\* SkyTurtle.__init__(discretisation_level)
SkyTurtle(discretisation_level) ==
    [discretisation_level |-> discretisation_level,
     vertices |-> turtle_dome(discretisation_level).vertices,
     faces |-> turtle_dome(discretisation_level).faces]

\* what a method leaves: the object, and what it returns or raises
Outcome(self, status, value) == [self |-> self, status |-> status, value |-> value]

\* face_samples that keeps the faces of the samples as the turtle's faces
face_samples_refining(self, iter) ==
    LET r == sample_faces(self.vertices, self.faces, iter)
    IN  Outcome([self EXCEPT !.faces =
                     Array([i \in 1..Len(r.tags) |-> self.faces[r.tags[i]]])],
                "ok", r)

\* SkyTurtle.face_samples(iter)
face_samples(self, iter) ==
    Outcome(self, "ok", sample_faces(self.vertices, self.faces, iter))

\* the sum of the irradiances of the samples that carry the tag
RECURSIVE TagSum(_, _, _)
TagSum(tags, irradiances, tag) ==
    IF tags = <<>> THEN 0
    ELSE (IF Head(tags) = tag THEN Head(irradiances) ELSE 0)
             + TagSum(Tail(tags), Tail(irradiances), tag)

\* df.groupby('tag').agg(numpy.sum): the irradiance of each tag
irr_faces(tags, irradiances) ==
    [tag \in {tags[i] : i \in 1..Len(tags)} |-> TagSum(tags, irradiances, tag)]

\* SkyTurtle.directional_irradiances(model, iter, ghi, zenith, ...) for nsky
\* sky states: the module's directional_irradiances(theta, phi, ghi=1, ...)
\* is handed sky['ghi'] as theta and the directions as phi
SkyTurtle_directional_irradiances(self, model, iter, nsky) ==
    LET samples == face_samples(self, iter).value
        n == Len(samples.directions)
        paired == IF nsky < n THEN nsky ELSE n
    IN  IF model = "all_weather"
        THEN \* zip(theta, phi) pairs the sky states with the first
             \* directions; the table of tags and irradiances needs as many
             \* irradiances as tags
             IF paired = n /\ n = 0
             THEN Outcome(self, "ok", [directions |-> samples.directions,
                                       irradiances |-> <<>>,
                                       irr_faces |-> irr_faces(samples.tags, <<>>),
                                       tags |-> samples.tags])
             ELSE Outcome(self, "ValueError", <<>>)
        ELSE IF model = "cie_soc"
        THEN \* len(ghi) of the default ghi = 1
             Outcome(self, "TypeError", <<>>)
        ELSE Outcome(self, "ValueError", <<>>)

\* SkyTurtle.sample_luminances(iter, sky_irradiances): calls
\* self.sample_irradiances, which the class does not define
sample_luminances(self, iter) == Outcome(self, "AttributeError", <<>>)

\* SkyTurtle.display(property): hands vertices and faces to the viewer
SkyTurtle_display(self, property) == Outcome(self, "ok", <<>>)

(***************************************************************************)
(* Weather data (Weather.Weather).  data is the frame read from the file,  *)
(* a column of values per name, one value per hour; None when the Weather  *)
(* is built without a file.  Values are fixed-point.  check_defaults is    *)
(* the dictionary that is the default of the models argument of check.     *)
(***************************************************************************)
\* the frame that has the columns of data and the column v
WithColumn(data, v, values) ==
    [c \in (DOMAIN data) \cup {v} |-> IF c = v THEN values ELSE data[c]]

\* a column that holds x at each of n hours
Constant(n, x) == [i \in 1..n |-> x]

\* septo3d_reader(data_file): the columns of a septo3D file, renamed
septo3d_reader(par) ==
    [c \in {"date", "PPFD", "temperature_air", "relative_humidity",
            "wind_speed", "rain"} |->
        CASE c = "date" -> [i \in 1..Len(par) |-> i]
          [] c = "PPFD" -> par
          [] c = "temperature_air" -> Constant(Len(par), 20 * S)
          [] c = "relative_humidity" -> Constant(Len(par), 50 * S)
          [] c = "wind_speed" -> Constant(Len(par), 2 * S)
          [] c = "rain" -> Constant(Len(par), 0)]

\* a reader of files that hold the global radiation (example/mango.py)
radiation_reader(rg) ==
    [c \in {"date", "global_radiation", "temperature_air", "relative_humidity"} |->
        CASE c = "date" -> [i \in 1..Len(rg) |-> i]
          [] c = "global_radiation" -> rg
          [] c = "temperature_air" -> Constant(Len(rg), 20 * S)
          [] c = "relative_humidity" -> Constant(Len(rg), 50 * S)]

\* Weather.__init__: self.models
self_models ==
    [v \in {"global_radiation", "vapor_pressure", "PPFD", "degree_days",
            "diffuse_fraction"} |->
        CASE v = "global_radiation" -> "PPFD_to_global"
          [] v = "vapor_pressure" -> "humidity_to_vapor_pressure"
          [] v = "PPFD" -> "global_to_PPFD"
          [] v = "degree_days" -> "linear_degree_days"
          [] v = "diffuse_fraction" -> "diffuse_fraction"]

\* the septo3d_reader of meteorology.weather: the columns of the file keep
\* their names but for PAR, Vent and Pluie
meteorology_septo3d_reader(par) ==
    [c \in {"PPFD", "Tair", "HR", "wind_speed", "rain"} |->
        CASE c = "PPFD" -> par
          [] c = "Tair" -> Constant(Len(par), 20 * S)
          [] c = "HR" -> Constant(Len(par), 50 * S)
          [] c = "wind_speed" -> Constant(Len(par), 2 * S)
          [] c = "rain" -> Constant(Len(par), 0)]

\* meteorology.weather.Weather(data_file)
meteorology_Weather(values) ==
    [built |-> TRUE, class |-> "meteorology.weather.Weather",
     data |-> Some(meteorology_septo3d_reader(values)),
     check_defaults |-> {}]

\* Weather(data_file, reader): reader is "" when there is no file
Weather(reader, values) ==
    [built |-> TRUE, class |-> "Weather.Weather",
     data |-> IF reader = "" THEN None
              ELSE Some(IF reader = "septo3d_reader" THEN septo3d_reader(values)
                        ELSE radiation_reader(values)),
     check_defaults |-> {}]

\* Psat(T): 0.6108 * exp(17.27 * T / (237.3 + T))
Psat(T) == Mul(611, Exp(FDiv(Mul(17270, T), 237300 + T)))

\* the columns a model reads from the frame
ModelInputs(model) ==
    CASE model = "PPFD_to_global" -> {"PPFD"}
      [] model = "humidity_to_vapor_pressure" -> {"relative_humidity", "temperature_air"}
      [] model = "global_to_PPFD" -> {"global_radiation"}
      [] model = "linear_degree_days" -> {"temperature_air"}
      [] model = "diffuse_fraction" -> {"global_radiation"}
      [] OTHER -> {}

\* sunsky.diffuse_fraction(Rg, ...): the diffuse share of a global radiation
sunsky_diffuse_fraction(rg) == IF rg = 0 THEN S ELSE 400

\* linear_degree_days(data) with its defaults: the sum of the hourly
\* temperatures within [0, 35] after the first hour, per day
RECURSIVE DegreeDays(_, _)
DegreeDays(temp, i) ==
    IF i <= 1 THEN 0
    ELSE DegreeDays(temp, i - 1)
             + RDiv(IF temp[i] < 0 \/ temp[i] > 35 * S THEN 0 ELSE temp[i], 24)

\* the values a model computes from the frame
ModelValues(model, data) ==
    LET n == Len(data["date"])
    IN  CASE model = "PPFD_to_global" ->
                [i \in 1..n |-> RDiv(data["PPFD"][i] * 1000, 2208)]
          [] model = "global_to_PPFD" ->
                [i \in 1..n |-> RDiv(data["global_radiation"][i] * 2208, 1000)]
          [] model = "humidity_to_vapor_pressure" ->
                [i \in 1..n |-> Mul(RDiv(data["relative_humidity"][i], 100),
                                    Psat(data["temperature_air"][i]))]
          [] model = "linear_degree_days" ->
                [i \in 1..n |-> DegreeDays(data["temperature_air"], i)]
          [] model = "diffuse_fraction" ->
                [i \in 1..n |-> sunsky_diffuse_fraction(data["global_radiation"][i])]
          [] OTHER -> Constant(n, S)

\* models[v](self.data, **kwargs): the values, or the exception of a model
\* whose arguments do not fit or whose columns are missing
CallModel(model, data, kwargs) ==
    IF (model = "diffuse_fraction") # ("localisation" \in kwargs)
    THEN [status |-> "TypeError", values |-> <<>>]
    ELSE IF ~(ModelInputs(model) \subseteq DOMAIN data)
    THEN [status |-> "KeyError", values |-> <<>>]
    ELSE [status |-> "ok", values |-> ModelValues(model, data)]

\* models.update(self.models): the models of the caller, those of the
\* Weather taking over the names they share
UpdatedModels(models) ==
    [v \in (DOMAIN models) \cup (DOMAIN self_models) |->
        IF v \in DOMAIN self_models THEN self_models[v] ELSE models[v]]

\* the loop of check from the i-th name on: the frame and the list so far
RECURSIVE CheckLoop(_, _, _, _, _, _)
CheckLoop(data, models, arguments, varnames, i, check) ==
    IF i > Len(varnames) THEN [status |-> "ok", data |-> data, value |-> check]
    ELSE LET v == varnames[i]
         IN  IF v \in DOMAIN data
             THEN CheckLoop(data, models, arguments, varnames, i + 1, Append(check, TRUE))
             ELSE IF v \in DOMAIN models
             THEN LET r == CallModel(models[v], data,
                                     IF v \in DOMAIN arguments THEN arguments[v] ELSE {})
                  IN  IF r.status # "ok"
                      THEN [status |-> r.status, data |-> data, value |-> <<>>]
                      ELSE CheckLoop(WithColumn(data, v, r.values), models, arguments,
                                     varnames, i + 1, Append(check, TRUE))
             ELSE CheckLoop(data, models, arguments, varnames, i + 1, Append(check, FALSE))

\* Weather.check(varnames, models, args): models is None when the caller
\* leaves the default
Weather_check(self, varnames, models, arguments) ==
    LET given == IF IsNone(models) THEN [v \in self.check_defaults |-> self_models[v]]
                 ELSE Val(models)
        all == UpdatedModels(given)
        after == IF IsNone(models)
                 THEN [self EXCEPT !.check_defaults = DOMAIN all] ELSE self
    IN  IF IsNone(self.data)
        THEN IF varnames = <<>> THEN Outcome(after, "ok", <<>>)
             ELSE Outcome(after, "AttributeError", <<>>)
        ELSE LET r == CheckLoop(Val(self.data), all, arguments, varnames, 1, <<>>)
             IN  Outcome([after EXCEPT !.data = Some(r.data)], r.status, r.value)

\* sunsky.diffuse_light_irradiance(elevation, azimuth, fraction, 'soc',
\* 'horizontal') on the directions of sky_discretisation: the relative
\* horizontal irradiances of an overcast sky
diffuse_light_irradiance == sky_radiance_distribution(sky_discretisation, "soc", 0, 0)

\* the hours of the frame from first to last with the sun up and a positive
\* direct irradiance
RECURSIVE Sunny(_, _, _, _, _, _)
Sunny(sun_irradiance, elevation, azimuth, normal, first, last) ==
    IF first > last THEN <<>>
    ELSE IF elevation[first] > 0 /\ sun_irradiance[first] > 0
    THEN <<[elevation |-> elevation[first], azimuth |-> azimuth,
            irradiance |-> IF normal
                           THEN normal_irradiance(sun_irradiance[first], elevation[first])
                           ELSE sun_irradiance[first]]>>
             \o Sunny(sun_irradiance, elevation, azimuth, normal, first + 1, last)
    ELSE Sunny(sun_irradiance, elevation, azimuth, normal, first + 1, last)

\* the sum of x[i] * y[i] over the hours from first to last
RECURSIVE SumProduct(_, _, _, _)
SumProduct(x, y, first, last) ==
    IF first > last THEN 0
    ELSE Mul(x[first], y[first]) + SumProduct(x, y, first + 1, last)

\* the sources of the sun and of the sky of a frame that has the columns
\* what and diffuse_fraction
LightSources(data, first, last, what, irradiance, elevation, azimuth) ==
    LET n == last - first + 1
        direct == [i \in 1..Len(data[what]) |-> S - data["diffuse_fraction"][i]]
        total == SumProduct(data[what], direct, first, last)
        \* sun_irradiance / sun_irradiance.sum() * sun_irradiance.mean():
        \* not a number when the sum is zero
        sun_irradiance == [i \in 1..Len(data[what]) |->
                              IF total = 0 THEN 0
                              ELSE RDiv(Mul(data[what][i], direct[i]), n)]
        diffuse == RDiv(SumProduct(data[what], data["diffuse_fraction"], first, last), n)
        sky_irradiance == [j \in 1..TurtleSize |->
                              RDiv(diffuse_light_irradiance[j] * RDiv(diffuse, 10), S)]
        sky == Sources(sky_discretisation,
                       [j \in 1..TurtleSize |->
                           IF irradiance = "normal"
                           THEN normal_irradiance(sky_irradiance[j],
                                                  sky_discretisation[j].elevation)
                           ELSE sky_irradiance[j]])
    IN  [sun |-> Sunny(sun_irradiance, elevation, azimuth, irradiance = "normal",
                       first, last),
         sky |-> sky,
         duration |-> (last - first) * 3600]

\* Weather.light_sources(seq, what, irradiance=irradiance): seq goes from
\* the hour first to the hour last of the frame; elevation and azimuth are
\* the position of the sun at the hours of the frame
Weather_light_sources(self, first, last, what, irradiance, elevation, azimuth) ==
    LET c == Weather_check(self, <<what, "diffuse_fraction">>, None,
                           [v \in {"diffuse_fraction"} |-> {"localisation"}])
    IN  IF c.status # "ok" THEN Outcome(c.self, c.status, <<>>)
        ELSE IF ~({what, "diffuse_fraction"} \subseteq DOMAIN Val(c.self.data))
        THEN Outcome(c.self, "KeyError", <<>>)
        ELSE Outcome(c.self, "ok",
                     LightSources(Val(c.self.data), first, last, what, irradiance,
                                  elevation, azimuth))

\* meteorology.weather.Weather.light_sources(seq, what): the class has no
\* method check
meteorology_light_sources(self, first, last, what, irradiance) ==
    Outcome(self, "AttributeError", <<>>)

(***************************************************************************)
(* Sun azimuth (sun_position.sun_azimuth) and the almanac it rests on, at  *)
(* any hour of the day.  Julian dates are in hours (24ths of a day), hour  *)
(* angles in thousandths of an hour, longitudes, right ascensions,         *)
(* elevations and azimuths in thousandths of a degree, declinations in     *)
(* thousandths of a radian, latitudes in whole degrees.                    *)
(***************************************************************************)
\* numpy.degrees of thousandths of a radian
DegreesOf(rad) == RDiv(rad * 180000, Pi)

\* numpy.arctan(y / x), in [-Pi/2, Pi/2]
Arctan(y, x) ==
    IF (y >= 0) = (x >= 0) THEN Atan2(Abs(y), Abs(x)) ELSE -Atan2(Abs(y), Abs(x))

\* julian_date with the leap days counted from 1950
julian_date_late(hUTC, dayofyear, year) ==
    LET delta == year - 1949
        leap == (delta - 1) \div 4
    IN  58389996 + 24 * (delta * 365 + leap + dayofyear) + hUTC

\* julian_date(hUTC, dayofyear, year) for a whole hour hUTC, in hours:
\* 24 * (2432916.5 + delta * 365 + leap + dayofyear) + hUTC
julian_date(hUTC, dayofyear, year) ==
    LET delta == year - 1949
        leap == delta \div 4
    IN  58389996 + 24 * (delta * 365 + leap + dayofyear) + hUTC

\* n = jd - 2451545 of the almanac, in hours
HoursSince2000(hUTC, dayofyear, year) == julian_date(hUTC, dayofyear, year) - 58837080

\* ecliptic_longitude(hUTC, dayofyear, year)
ecliptic_longitude_at(hUTC, dayofyear, year) ==
    LET n == HoursSince2000(hUTC, dayofyear, year)
        L == (280460 + n * 41 + RDiv(n * 6864, 100000)) % 360000
        g == (357528 + n * 41 + RDiv(n * 6668, 100000)) % 360000
    IN  L + Mul(1915, Sin(RadiansOf(g))) + Mul(20, Sin(RadiansOf(2 * g)))

\* the obliquity of the ecliptic, 23.439 - 0.0000004 * n
obliquity(hUTC, dayofyear, year) ==
    23439 - RDiv(HoursSince2000(hUTC, dayofyear, year) * 4, 240000)

\* declination(hUTC, dayofyear, year)
declination_at(hUTC, dayofyear, year) ==
    Asin(Mul(Sin(RadiansOf(obliquity(hUTC, dayofyear, year))),
             Sin(RadiansOf(ecliptic_longitude_at(hUTC, dayofyear, year)))))

\* right_ascension(hUTC, dayofyear, year)
right_ascension(hUTC, dayofyear, year) ==
    Eval(RadiansOf(ecliptic_longitude_at(hUTC, dayofyear, year)), LAMBDA l :
        DegreesOf(Arctan(Mul(Cos(RadiansOf(obliquity(hUTC, dayofyear, year))), Sin(l)),
                         Cos(l)))
            + (IF Cos(l) >= 0 THEN 0 ELSE 180000))

\* hour_angle(hUTC, dayofyear, year, longitude)
hour_angle(hUTC, dayofyear, year, longitude) ==
    LET n == HoursSince2000(hUTC, dayofyear, year)
        gmst == (6697 + n * 2 + RDiv(n * 7379, 10000) + hUTC * 1000) % 24000
        lmst == (gmst + RDiv(longitude, 15)) % 24000
        ra == right_ascension(hUTC, dayofyear, year)
    IN  ((lmst - RDiv(ra, 15) + 12000) % 24000) - 12000

\* sun_elevation(hUTC, dayofyear, year, latitude, longitude)
sun_elevation_at(hUTC, dayofyear, year, latitude, longitude) ==
    Eval(declination_at(hUTC, dayofyear, year), LAMBDA dec :
        DegreesOf(Asin(Mul(Sin(dec), Sin(Radians(latitude)))
            + Mul(Mul(Cos(dec), Cos(Radians(latitude))),
                  Cos(RadiansOf(15 * hour_angle(hUTC, dayofyear, year, longitude)))))))

\* elc of sun_azimuth, arcsin(sin(dec) / sin(lat)): not a number at the
\* equator and wherever the quotient leaves [-1, 1]
critical_elevation(dec, latitude) ==
    IF Sin(Radians(latitude)) = 0 THEN None
    ELSE Eval(FDiv(Sin(dec), Sin(Radians(latitude))), LAMBDA q :
             IF q > S \/ q < -S THEN None ELSE Some(Asin(q)))

\* el >= elc, which is false when elc is not a number
AboveCritical(el, elc) == IF IsNone(elc) THEN FALSE ELSE el >= Val(elc)

\* numpy.where(el >= elc, 180 - az, numpy.where(ha > 0, 360 + az, az))
MichalskyAzimuthLate(az, above, ha) ==
    IF above THEN 180000 - az ELSE IF ha < 0 THEN 360000 + az ELSE az

MichalskyAzimuth(az, above, ha) ==
    IF above THEN 180000 - az ELSE IF ha > 0 THEN 360000 + az ELSE az

\* sun_azimuth(hUTC, dayofyear, year, latitude, longitude); the quotient
\* sinaz is not a number when the sun is at the zenith
sun_azimuth_at(hUTC, dayofyear, year, latitude, longitude) ==
    Eval(<<declination_at(hUTC, dayofyear, year),
           hour_angle(hUTC, dayofyear, year, longitude),
           RadiansOf(sun_elevation_at(hUTC, dayofyear, year, latitude, longitude))>>,
         LAMBDA t :
            IF Cos(t[3]) = 0 THEN [nan |-> TRUE, az |-> 0]
            ELSE [nan |-> FALSE,
                  az |-> MichalskyAzimuth(
                      DegreesOf(Asin(-FDiv(Mul(Cos(t[1]), Sin(RadiansOf(15 * t[2]))),
                                           Cos(t[3])))),
                      AboveCritical(t[3], critical_elevation(t[1], latitude)),
                      t[2])])

(***************************************************************************)
(* Weather data by name (meteorology.weather.Weather.get) and the table of *)
(* the meteorological variables (meteorology.variables).  A frame is the   *)
(* sequence of its column names and the values of each column, a row per   *)
(* hour.  The order in which a dictionary of converters is walked is the   *)
(* interpreter's: reversed names the variables whose dictionary is walked  *)
(* from its last key.                                                      *)
(***************************************************************************)
Range(q) == {q[i] : i \in 1..Len(q)}

RECURSIVE Reverse(_)
Reverse(q) == IF q = <<>> THEN <<>> ELSE Append(Reverse(Tail(q)), Head(q))

\* a converter of one prior variable
Single(prior, fn) == [tuple |-> FALSE, names |-> <<prior>>, fn |-> fn]

\* a converter of a tuple of prior variables
Tuple(priors, fn) == [tuple |-> TRUE, names |-> priors, fn |-> fn]

\* an entry of the dictionary variables: its synonym list, if it has the
\* key, and its converters
Variable(name, synonym, convert) == [name |-> name, synonym |-> synonym, convert |-> convert]

\* the dictionary variables; the second 'convert' key of diffuse_radiation
\* replaces the first, and 'PAR' is a key of the entry of diffuse_radiation,
\* not of the dictionary
variables ==
    [k \in {"air_temperature", "global_radiation", "diffuse_radiation", "PPFD",
            "diffuse_PAR", "relative_humidity", "vapor_pressure",
            "dew_point_temperature", "wind_speed", "rain"} |->
        CASE k = "air_temperature" -> Variable(k, Some(<<"Tair">>), <<>>)
          [] k = "global_radiation" ->
                Variable(k, Some(<<"global_horizontal_irradiance", "GHI">>),
                         <<Single("PAR", "PAR_to_global"),
                           Single("PPFD", "PPFD_to_global")>>)
          [] k = "diffuse_radiation" ->
                Variable(k, Some(<<"diffuse_horizontal_irradiance", "DHI">>),
                         <<Single("global_radiation", "global_to_PAR"),
                           Single("PPFD", "PPFD_to_PAR")>>)
          [] k = "PPFD" ->
                Variable(k, None, <<Single("global_radiation", "global_to_PPFD"),
                                    Single("PAR", "PAR_to_PPFD")>>)
          [] k = "diffuse_PAR" ->
                Variable(k, None, <<Tuple(<<"global_radiation", "diffuse_radiation">>,
                                          "diffuse_to_diffuse_PAR")>>)
          [] k = "relative_humidity" -> Variable(k, Some(<<"HR">>), <<>>)
          [] k = "vapor_pressure" ->
                Variable(k, Some(<<>>), <<Tuple(<<"HR", "Tair">>,
                                                "humidity_to_vapor_pressure")>>)
          [] k = "dew_point_temperature" ->
                Variable(k, Some(<<"Tdew">>), <<Tuple(<<"HR", "Tair">>,
                                                      "humidity_to_Tdew")>>)
          [] k = "wind_speed" -> Variable(k, None, <<>>)
          [] k = "rain" -> Variable(k, None, <<>>)]

\* the variable a name is a synonym of
SynonymOf(s) ==
    CHOOSE k \in DOMAIN variables :
        ~IsNone(variables[k].synonym) /\ s \in Range(Val(variables[k].synonym))

\* meteorological_variables(): variables, and for each synonym an entry
\* whose synonyms are the variable and its other synonyms
meteorological_variables ==
    LET synonyms == UNION {Range(Val(variables[k].synonym)) :
                              k \in {v \in DOMAIN variables : ~IsNone(variables[v].synonym)}}
    IN  [k \in (DOMAIN variables) \cup synonyms |->
            IF k \in DOMAIN variables THEN variables[k]
            ELSE [variables[SynonymOf(k)] EXCEPT
                     !.synonym = Some(<<SynonymOf(k)>>
                         \o SelectSeq(Val(variables[SynonymOf(k)].synonym),
                                      LAMBDA s : s # k))]]

\* Psat(T) of variables.py: 0.6112 * exp(17.62 * T / (243.12 + T))
variables_Psat(T) == Mul(611, Exp(FDiv(Mul(17620, T), 243120 + T)))

\* the converters of variables.py named by the table, on one row
Convert(fn, x) ==
    CASE fn = "PAR_to_global" -> FDiv(x[1], 480)
      [] fn = "PPFD_to_global" -> FDiv(FDiv(x[1], 4600), 480)
      [] fn = "global_to_PAR" -> Mul(x[1], 480)
      [] fn = "PPFD_to_PAR" -> FDiv(x[1], 4600)
      [] fn = "humidity_to_vapor_pressure" -> Mul(RDiv(x[1], 100), variables_Psat(x[2]))
      [] fn = "humidity_to_Tdew" ->
            Eval(Ln(FDiv(Mul(RDiv(x[1], 100), variables_Psat(x[2])), 611)), LAMBDA l :
                FDiv(Mul(243120, l), 17620 - l))

\* the column a converter makes of the columns of its priors
ConvertColumn(fn, columns) ==
    [i \in 1..Len(columns[1]) |-> Convert(fn, [j \in 1..Len(columns) |-> columns[j][i]])]

\* data.columns[data.columns.isin(names)]
ColumnsIn(frame, names) == SelectSeq(frame.columns, LAMBDA c : c \in names)

\* data[w] = values: a new column comes last
SetColumn(frame, w, values) ==
    [columns |-> IF w \in Range(frame.columns) THEN frame.columns
                 ELSE Append(frame.columns, w),
     data |-> WithColumn(frame.data, w, values)]

\* what a step of the resolution of a name leaves: the frame and whether
\* the name is found, not yet found, or the error raised
Step(status, frame) == [status |-> status, frame |-> frame]

\* self.vars[p]['synonym']: KeyError for a name that is no key of vars and
\* for an entry that has no synonym list
HasSynonyms(p) ==
    p \in DOMAIN meteorological_variables /\ ~IsNone(meteorological_variables[p].synonym)

\* the columns of the frame that are synonyms of p
SynonymColumns(frame, p) ==
    ColumnsIn(frame, Range(Val(meteorological_variables[p].synonym)))

\* the body of the loop of get for a converter of one prior
TrySingle(frame, w, prior) ==
    IF prior.names[1] \in Range(frame.columns)
    THEN Step("found", SetColumn(frame, w,
                  ConvertColumn(prior.fn, <<frame.data[prior.names[1]]>>)))
    ELSE IF ~HasSynonyms(prior.names[1]) THEN Step("KeyError", frame)
    ELSE IF SynonymColumns(frame, prior.names[1]) # <<>>
    THEN Step("found", SetColumn(frame, w,
                  ConvertColumn(prior.fn,
                      <<frame.data[SynonymColumns(frame, prior.names[1])[1]]>>)))
    ELSE Step("next", frame)

\* the loop of get over the priors of a tuple: a prior found under a
\* synonym becomes a column of the frame
RECURSIVE Gather(_, _)
Gather(frame, names) ==
    IF names = <<>> THEN Step("found", frame)
    ELSE IF Head(names) \in Range(frame.columns) THEN Gather(frame, Tail(names))
    ELSE IF ~HasSynonyms(Head(names)) THEN Step("KeyError", frame)
    ELSE IF SynonymColumns(frame, Head(names)) # <<>>
    THEN Gather(SetColumn(frame, Head(names),
                          frame.data[SynonymColumns(frame, Head(names))[1]]),
                Tail(names))
    ELSE Eval(Gather(frame, Tail(names)), LAMBDA r :
             IF r.status = "KeyError" THEN r ELSE Step("next", r.frame))

\* the body of the loop of get for a converter of a tuple of priors
TryTuple(frame, w, prior) ==
    Eval(Gather(frame, prior.names), LAMBDA g :
        IF g.status = "found"
        THEN Step("found", SetColumn(g.frame, w,
                      ConvertColumn(prior.fn,
                          [j \in 1..Len(prior.names) |-> g.frame.data[prior.names[j]]])))
        ELSE g)

\* for prior in self.vars[w]['convert']: the first converter that applies
RECURSIVE TryConverters(_, _, _)
TryConverters(frame, w, priors) ==
    IF priors = <<>> THEN Step("Cannot find nor estimate variable", frame)
    ELSE Eval(IF Head(priors).tuple THEN TryTuple(frame, w, Head(priors))
              ELSE TrySingle(frame, w, Head(priors)), LAMBDA r :
             IF r.status = "next" THEN TryConverters(r.frame, w, Tail(priors)) ELSE r)

\* the converters of w in the order the dictionary is walked
Converters(w, reversed) ==
    IF meteorological_variables[w].name \in reversed
    THEN Reverse(meteorological_variables[w].convert)
    ELSE meteorological_variables[w].convert

\* the body of the loop of get for the name w
Resolve(frame, w, reversed) ==
    IF w \in Range(frame.columns) THEN Step("found", frame)
    ELSE IF w \notin DOMAIN meteorological_variables THEN Step("unknown variable", frame)
    ELSE IF IsNone(meteorological_variables[w].synonym) THEN Step("KeyError", frame)
    ELSE IF SynonymColumns(frame, w) # <<>>
    THEN Step("found", SetColumn(frame, w, frame.data[SynonymColumns(frame, w)[1]]))
    ELSE TryConverters(frame, w, Converters(w, reversed))

\* for w in what: the frame with the columns made on the way, or the error
RECURSIVE ResolveAll(_, _, _)
ResolveAll(frame, what, reversed) ==
    IF what = <<>> THEN Step("found", frame)
    ELSE Eval(Resolve(frame, Head(what), reversed), LAMBDA r :
             IF r.status = "found" THEN ResolveAll(r.frame, Tail(what), reversed) ELSE r)

\* data.loc[:, selection]
Selection(frame, selection) ==
    [columns |-> selection, data |-> [c \in Range(selection) |-> frame.data[c]]]

\* self.data.loc[seq, :] for the step hours that start at start
Rows(frame, start, step) ==
    [columns |-> frame.columns,
     data |-> [c \in DOMAIN frame.data |-> SubSeq(frame.data[c], start, start + step - 1)]]

\* Weather.get(start, step=step, what=what)
Weather_get(self, start, step, what, reversed) ==
    Eval(Rows([columns |-> self.columns, data |-> Val(self.data)], start, step),
         LAMBDA data :
            IF IsNone(what) THEN Outcome(self, "ok", Selection(data, data.columns))
            ELSE Eval(ResolveAll(data, Val(what), reversed), LAMBDA r :
                     IF r.status = "found"
                     THEN Outcome(self, "ok", Selection(r.frame, Val(what)))
                     ELSE IF r.status = "KeyError" THEN Outcome(self, "KeyError", <<>>)
                     ELSE Outcome(self, "ValueError", <<r.status>>)))

\* the frame a reader makes of a file that has the named columns and n
\* hourly records
ReadFrame(columns, n) ==
    [c \in Range(columns) |->
        [i \in 1..n |-> (CASE c \in {"Tair", "air_temperature"} -> 20 * S
                           [] c \in {"HR", "relative_humidity"} -> 50 * S
                           [] c \in {"wind_speed", "rain"} -> 2 * S
                           [] OTHER -> 200 * S) + i * S]]

\* meteorology.weather.Weather(data_file, reader) for a reader of the named
\* columns
meteorology_Weather_of(columns, n) ==
    [built |-> TRUE, class |-> "meteorology.weather.Weather",
     data |-> Some(ReadFrame(columns, n)), columns |-> columns,
     check_defaults |-> {}]

(***************************************************************************)
(* Dates of a septo3D file (meteorology.weather.septo3d_reader).  A record *)
(* is the year An, the day of the year Jour and the time hhmm; a date is a *)
(* year, a day of the year and an hour.                                    *)
(***************************************************************************)
\* max(dayofyear) over the records of the file
RECURSIVE MaxJour(_)
MaxJour(records) ==
    IF records = <<>> THEN 0
    ELSE Eval(MaxJour(Tail(records)), LAMBDA m :
             IF Head(records).Jour > m THEN Head(records).Jour ELSE m)

\* the number of days of a year of the calendar
DaysInYear(y) == IF y % 4 = 0 /\ (y % 100 # 0 \/ y % 400 = 0) THEN 366 ELSE 365

\* _date(y, d, h): datetime.strptime('%d %d %d' % (y, d, h), '%Y %j %H'),
\* which counts the day of the year from the first of January of the year
strptime(y, d, h) ==
    IF d > DaysInYear(y) THEN [year |-> y + 1, dayofyear |-> d - DaysInYear(y), hour |-> h]
    ELSE [year |-> y, dayofyear |-> d, hour |-> h]

\* the date septo3d_reader gives a record of a file whose largest day of
\* the year is last_day
septo3d_date(record, last_day) ==
    LET hour == record.hhmm \div 100
        dayofyear == record.Jour + (IF hour = 24 THEN 1 ELSE 0)
    IN  strptime(record.An + (IF dayofyear > last_day THEN 1 ELSE 0),
                 IF dayofyear > last_day THEN 1 ELSE dayofyear,
                 hour - (IF hour = 24 THEN 24 ELSE 0))

\* the index septo3d_reader gives the records of a file
septo3d_index(records) ==
    Eval(MaxJour(records), LAMBDA last_day :
        [i \in 1..Len(records) |-> septo3d_date(records[i], last_day)])

(***************************************************************************)
(* Weather data by time step (Weather.split_weather of both classes).  The *)
(* records of the file are hourly and the index of the frame counts the    *)
(* hours from 1.                                                           *)
(***************************************************************************)
\* the number of records of a frame
FrameLength(data) == Len(data[CHOOSE c \in DOMAIN data : TRUE])

\* self.data.truncate(before=before, after=after): the records whose hour
\* is in [before, after], with their index
truncate(data, before, after) ==
    LET lo == IF before > 1 THEN before ELSE 1
        hi == IF after < FrameLength(data) THEN after ELSE FrameLength(data)
    IN  [index |-> [i \in 1..(hi - lo + 1) |-> lo + i - 1],
         data |-> [c \in DOMAIN data |-> SubSeq(data[c], lo, hi)]]

\* split_weather whose windows end a whole time step after they start
split_weather_overlapping(self, time_step, t_deb, n_steps) ==
    Outcome(self, "ok",
        [i \in 1..n_steps |->
            truncate(Val(self.data), t_deb + (i - 1) * time_step,
                     t_deb + (i - 1) * time_step + time_step)])

\* split_weather(time_step, t_deb, n_steps), t_deb being an hour of the
\* index: the windows [t, t + time_step - 1] for t = t_deb + i * time_step
split_weather(self, time_step, t_deb, n_steps) ==
    Outcome(self, "ok",
        [i \in 1..n_steps |->
            truncate(Val(self.data), t_deb + (i - 1) * time_step,
                     t_deb + (i - 1) * time_step + (time_step - 1))])

(***************************************************************************)
(* Inputs.                                                                 *)
(***************************************************************************)
\* clearness values: every bin edge, its two neighbours, and values outside
ClearnessGrid ==
    {500, 7000} \cup UNION {{bins[i] - 1, bins[i], bins[i] + 1} : i \in 1..Len(bins)}

\* sun zenith angles (radians): 0, 30, 60 degrees
ZGrid == {0, 524, 1047}

\* sky brightness
BrightnessGrid == {50, 200, 500}

\* zenith angles of sky elements (radians): 0, 30, 60 degrees
ThetaGrid == {0, 524, 1047}

\* the same with the horizon, where the CIE gradation has its own case
ThetaGridCie == ThetaGrid \cup {HalfPi}

\* azimuths of sky elements (radians)
PhiGrid == {0, HalfPi, Pi}

\* sun zenith angles (degrees); at 120 the sun is below the horizon
SunZenithGrid == {0, 30, 60, 120}

\* sun azimuths (degrees)
SunAzimuthGrid == {90, 180}

\* clearness of the sky states whose luminance is evaluated
SkyClearnessGrid == {1000, 1065, 1100, 3000, 7000}

\* a value or None
Opt(set) == {None} \cup {Some(v) : v \in set}

\* sky types asked of cie_relative_luminance
SkyTypes == {"soc", "uoc", "clear_sky", "blended", "other"}

\* sky models asked of directional_irradiances
SkyModels == {"all_weather", "cie_soc", "blended"}

\* the directions handed to directional_irradiances
DirGrid == ThetaGrid \X {0, HalfPi}

\* tuples of at most n elements of set
RECURSIVE SeqUpTo(_, _)
SeqUpTo(set, n) ==
    IF n = 0 THEN {<<>>}
    ELSE LET shorter == SeqUpTo(set, n - 1)
         IN  shorter \cup {Append(q, x) : q \in {t \in shorter : Len(t) = n - 1}, x \in set}

\* sun elevations (degrees): below, on and above the horizon
ElevationGrid == {-6, 0, 30, 60}

\* supplied global horizontal irradiances (W.m-2)
GhiGrid == {0, 100, 400}

\* supplied diffuse horizontal irradiances (W.m-2), a negative one among them
DhiGrid == {-50, 50, 200}

\* latitudes (degrees): Montpellier, and one beyond the pole
LatitudeGrid == {43, 95}

\* the dates 1..n of a time sequence of n dates
DatesOf(n) == [i \in 1..n |-> i]

\* tuples of exactly n elements of set
TupleOf(set, n) == {q \in SeqUpTo(set, n) : Len(q) = n}

\* sky types asked of the sky sources
SourceSkyTypes == {"soc", "uoc", "clear_sky"}

\* sun elevations (degrees) of the sky sources
SunElevationGrid == {30, 60}

\* sun elevations (degrees) at the dates of the sun and sky sources
SourceElevationGrid == {-6, 30}

\* normalisation totals: 1 and 2
TotalGrid == {Unit, 2 * Unit}

\* face splitting iterations asked of face_samples
IterGrid == {1}

(***************************************************************************)
(* The state machine.                                                      *)
(***************************************************************************)
NoArgs == [none |-> TRUE]

\* no SkyTurtle has been built
NoTurtles == <<>>

\* no Weather has been built
NoWeather == [built |-> FALSE]

\* days of the year: the new year, the equinoxes and the solstices
DayGrid == {1, 80, 172, 266, 355}

\* years of the almanac
YearGrid == {2016, 2017}

\* latitudes of daylength (degrees): the equator, Montpellier north and
\* south, the polar circle and beyond, the pole
DaylengthLatitudes == {-43, 0, 10, 20, 43, 67, 80, 90}

\* the last day of the year of the almanac, whose leap years are the years
\* divisible by 4
LastDay(year) == IF year % 4 = 0 THEN 366 ELSE 365

\* days of the year at both ends of the year and of February
YearEndGrid == {1, 2, 59, 60, 61, 365, 366}

\* records of septo3D files: the end of a day in spring and the end of the
\* year, of a leap year and of the year after
RecordGrid ==
    {r \in [An : {2000, 2001}, Jour : {110, 365, 366}, hhmm : {2300, 2400}] :
        r.Jour <= DaysInYear(r.An)}

\* the record r is earlier in time than the record s
Earlier(r, s) ==
    \/ r.An < s.An
    \/ r.An = s.An /\ r.Jour < s.Jour
    \/ r.An = s.An /\ r.Jour = s.Jour /\ r.hhmm < s.hhmm

\* files of up to n records in chronological order
FilesUpTo(n) ==
    {q \in SeqUpTo(RecordGrid, n) :
        Len(q) > 0 /\ \A i \in 1..(Len(q) - 1) : Earlier(q[i], q[i + 1])}

\* sun elevations (radians) of all_weather_sky.aw_parameters: 30, 60 and 90
\* degrees
AwElevationGrid == {524, 1047, HalfPi}

\* hours of the day (UTC)
HourGrid == {0, 3, 6, 9, 12, 15, 18, 21}

\* latitudes of sun_azimuth (degrees): south, the equator, the tropics,
\* Montpellier, beyond the polar circle
AzimuthLatitudes == {-35, 0, 10, 43, 70}

\* longitudes (thousandths of a degree): Montpellier, California
LongitudeGrid == {3520, -120000}

\* the columns of the files read: a septo3D file, a file of irradiances
\* under two names, a file of global and diffuse radiation, a file of PAR
FrameColumns ==
    {<<"PPFD", "Tair", "HR", "wind_speed", "rain">>,
     <<"GHI", "global_horizontal_irradiance", "Tair">>,
     <<"global_radiation", "diffuse_radiation", "HR">>,
     <<"PAR", "Tair", "HR">>}

\* names asked of get: variables, synonyms, PAR, and a name nobody knows
GetNames ==
    {"PPFD", "rain", "wind_speed", "global_radiation", "GHI", "diffuse_radiation",
     "diffuse_PAR", "vapor_pressure", "dew_point_temperature", "air_temperature",
     "PAR", "leaf_wetness"}

\* the variables that have two converters
TwoConverters == {k \in DOMAIN variables : Len(variables[k].convert) = 2}

\* the Weather classes of the package
WeatherClasses == {"Weather.Weather", "meteorology.weather.Weather"}

\* the readers a Weather is built with; "" when it is built without a file
Readers == {"", "septo3d_reader", "radiation_reader"}

\* the radiation of an hour of the file: night and day
RadiationGrid == {0, 460 * S}

\* the names asked of check: columns of the files, columns the models of
\* the Weather create, and a name only a model of the caller creates
CheckNames == {"PPFD", "global_radiation", "vapor_pressure", "degree_days",
               "diffuse_fraction", "wind_chill"}

\* the models a caller gives to check
UserModels == {[v \in {"wind_chill"} |-> "user_model"]}

\* the arguments a caller gives to check
CheckArgs == {[v \in {} |-> {}], [v \in {"diffuse_fraction"} |-> {"localisation"}]}

\* the columns light_sources reads the radiation from
RadiationNames == {"global_radiation", "PPFD"}

\* the irradiance argument of light_sources
IrradianceKinds == {"horizontal", "normal"}

\* the elevation of the sun at an hour of the file, degrees
SunriseGrid == {-6, 30}

Init ==
    /\ pc = "idle"
    /\ op = "none"
    /\ args = NoArgs
    /\ result = [status |-> "none"]
    /\ nEval = 0
    /\ turtles = NoTurtles
    /\ weather = NoWeather

\* a call of aw_parameters(z, clearness, brightness)
Call_aw_parameters ==
    /\ pc = "idle"
    /\ \E z \in ZGrid, clearness \in ClearnessGrid, brightness \in BrightnessGrid :
        /\ args' = [z |-> z, clearness |-> clearness, brightness |-> brightness]
        /\ result' = [status |-> "ok",
                      value |-> aw_parameters(z, clearness, brightness)]
    /\ op' = "aw_parameters"
    /\ nEval' = 0
    /\ pc' = "done"
    /\ UNCHANGED <<turtles, weather>>

\* a call of cie_relative_luminance(theta, phi, sun_zenith, sun_azimuth, type)
Call_cie_relative_luminance ==
    /\ pc = "idle"
    /\ \E theta \in ThetaGridCie, phi \in Opt(PhiGrid),
          sun_zenith \in Opt(SunZenithGrid), sun_azimuth \in Opt(SunAzimuthGrid),
          type \in SkyTypes :
        LET r == cie_relative_luminance(theta, phi, sun_zenith, sun_azimuth, type)
        IN  /\ args' = [theta |-> theta, phi |-> phi, sun_zenith |-> sun_zenith,
                        sun_azimuth |-> sun_azimuth, type |-> type]
            /\ result' = [status |-> r.status, value |-> r.value]
            /\ nEval' = r.evals
    /\ op' = "cie_relative_luminance"
    /\ pc' = "done"
    /\ UNCHANGED <<turtles, weather>>

\* a call of aw_relative_luminance(theta, phi, sun_zenith, sun_azimuth,
\* clearness, brightness)
Call_aw_relative_luminance ==
    /\ pc = "idle"
    /\ \E theta \in ThetaGrid, phi \in PhiGrid, sun_zenith \in SunZenithGrid,
          sun_azimuth \in SunAzimuthGrid, clearness \in SkyClearnessGrid,
          brightness \in BrightnessGrid :
        /\ args' = [theta |-> theta, phi |-> phi, sun_zenith |-> sun_zenith,
                    sun_azimuth |-> sun_azimuth, clearness |-> clearness,
                    brightness |-> brightness]
        /\ result' = [status |-> "ok",
                      value |-> aw_relative_luminance(theta, phi, sun_zenith,
                                    sun_azimuth, clearness, brightness)]
    /\ nEval' = 1
    /\ op' = "aw_relative_luminance"
    /\ pc' = "done"
    /\ UNCHANGED <<turtles, weather>>

\* a call of directional_irradiances(theta, phi, ghi, model, sun_zenith,
\* sun_azimuth, clearness, brightness)
Call_directional_irradiances ==
    /\ pc = "idle"
    /\ \E dirs \in SeqUpTo(DirGrid, MaxDirs), ghi \in Opt({500}),
          model \in SkyModels, sun_zenith \in Opt({30}), sun_azimuth \in Opt({180}),
          clearness \in Opt({1100, 3000}), brightness \in Opt({200}) :
        LET r == directional_irradiances(dirs, ghi, model, sun_zenith,
                     sun_azimuth, clearness, brightness)
        IN  /\ args' = [dirs |-> dirs, ghi |-> ghi, model |-> model,
                        sun_zenith |-> sun_zenith, sun_azimuth |-> sun_azimuth,
                        clearness |-> clearness, brightness |-> brightness]
            /\ result' = [status |-> r.status, value |-> r.value]
            /\ nEval' = r.evals
    /\ op' = "directional_irradiances"
    /\ pc' = "done"
    /\ UNCHANGED <<turtles, weather>>

\* a call of sun_position(dates, ..., method, filter_night)
Call_sun_position ==
    /\ pc = "idle"
    /\ \E n \in 1..MaxDates, method \in {"pvlib", "ephem", "astk", "other"},
          filter_night \in BOOLEAN, latitude \in LatitudeGrid :
        \E elevation \in TupleOf(ElevationGrid, n) :
            LET r == sun_position(DatesOf(n), elevation, method, filter_night)
            IN  /\ args' = [dates |-> DatesOf(n), latitude |-> latitude,
                            elevation |-> elevation,
                            method |-> method, filter_night |-> filter_night]
                /\ result' = [status |-> r.status, value |-> r.rows]
    /\ nEval' = 0
    /\ op' = "sun_position"
    /\ pc' = "done"
    /\ UNCHANGED <<turtles, weather>>

\* a call of sun_azimuth(hUTC, dayofyear, year, latitude, longitude)
Call_sun_azimuth ==
    /\ pc = "idle"
    /\ \E hUTC \in HourGrid, dayofyear \in DayGrid, year \in YearGrid,
          latitude \in AzimuthLatitudes, longitude \in LongitudeGrid :
        /\ args' = [hUTC |-> hUTC, dayofyear |-> dayofyear, year |-> year,
                    latitude |-> latitude, longitude |-> longitude]
        /\ result' = [status |-> "ok",
                      value |-> sun_azimuth_at(hUTC, dayofyear, year, latitude, longitude)]
    /\ nEval' = 0
    /\ op' = "sun_azimuth"
    /\ pc' = "done"
    /\ UNCHANGED <<turtles, weather>>

\* a call of julian_date(hUTC, dayofyear, year) for a day of the year
Call_julian_date ==
    /\ pc = "idle"
    /\ \E hUTC \in {0, 12}, dayofyear \in YearEndGrid, year \in MinYear..MaxYear :
        /\ dayofyear <= LastDay(year)
        /\ args' = [hUTC |-> hUTC, dayofyear |-> dayofyear, year |-> year]
        /\ result' = [status |-> "ok", value |-> julian_date(hUTC, dayofyear, year)]
    /\ nEval' = 0
    /\ op' = "julian_date"
    /\ pc' = "done"
    /\ UNCHANGED <<turtles, weather>>

\* a call of septo3d_reader(data_file) of meteorology.weather on a file in
\* chronological order
Call_septo3d_reader ==
    /\ pc = "idle"
    /\ \E records \in FilesUpTo(MaxRecords) :
        /\ args' = [records |-> records]
        /\ result' = [status |-> "ok", value |-> septo3d_index(records)]
    /\ nEval' = 0
    /\ op' = "septo3d_reader"
    /\ pc' = "done"
    /\ UNCHANGED <<turtles, weather>>

\* a call of all_weather_sky.aw_parameters(sun_elevation, clearness, brightness)
Call_all_weather_sky_aw_parameters ==
    /\ pc = "idle"
    /\ \E sun_elevation \in AwElevationGrid, clearness \in ClearnessGrid,
          brightness \in BrightnessGrid :
        /\ args' = [sun_elevation |-> sun_elevation, clearness |-> clearness,
                    brightness |-> brightness]
        /\ result' = [status |-> "ok",
                      value |-> all_weather_sky_aw_parameters(sun_elevation, clearness,
                                                              brightness)]
    /\ op' = "all_weather_sky.aw_parameters"
    /\ nEval' = 0
    /\ pc' = "done"
    /\ UNCHANGED <<turtles, weather>>

\* a call of sky_luminance.angle(a, b) on the unit vectors of two directions
Call_angle ==
    /\ pc = "idle"
    /\ \E theta \in ThetaGridCie, phi \in PhiGrid,
          sun_zenith \in ThetaGridCie, sun_azimuth \in PhiGrid :
        /\ args' = [a |-> cartesian(theta, phi),
                    b |-> cartesian(sun_zenith, sun_azimuth)]
        /\ result' = [status |-> "ok",
                      value |-> angle(cartesian(theta, phi),
                                      cartesian(sun_zenith, sun_azimuth))]
    /\ nEval' = 0
    /\ op' = "angle"
    /\ pc' = "done"
    /\ UNCHANGED <<turtles, weather>>

\* a call of daylength(dayofyear, year, latitude)
Call_daylength ==
    /\ pc = "idle"
    /\ \E dayofyear \in DayGrid, year \in YearGrid, latitude \in DaylengthLatitudes :
        /\ args' = [dayofyear |-> dayofyear, year |-> year, latitude |-> latitude]
        /\ result' = [status |-> "ok", value |-> daylength(dayofyear, year, latitude)]
    /\ nEval' = 0
    /\ op' = "daylength"
    /\ pc' = "done"
    /\ UNCHANGED <<turtles, weather>>

\* a call of sky_irradiances(dates, ghi, dhi, attenuation, ...)
Call_sky_irradiances ==
    /\ pc = "idle"
    /\ \E n \in 1..MaxDates, attenuation \in Opt({500}), direct \in {0, 500} :
        \E elevation \in TupleOf(ElevationGrid, n),
           ghi \in Opt(TupleOf(GhiGrid, n)), dhi \in Opt(TupleOf(DhiGrid, n)) :
            LET r == sky_irradiances(DatesOf(n), elevation, ghi, dhi,
                                     attenuation, 800, direct)
            IN  /\ args' = [dates |-> DatesOf(n), elevation |-> elevation,
                            ghi |-> ghi, dhi |-> dhi,
                            attenuation |-> attenuation, direct |-> direct]
                /\ result' = [status |-> r.status, value |-> r.rows,
                              twilight |-> r.twilight]
    /\ nEval' = 0
    /\ op' = "sky_irradiances"
    /\ pc' = "done"
    /\ UNCHANGED <<turtles, weather>>

\* a call of sky_radiance_distribution(elevation, azimuth, fraction,
\* sky_type, sun_elevation, sun_azimuth) on the directions of the turtle
Call_sky_radiance_distribution ==
    /\ pc = "idle"
    /\ \E sky_type \in SourceSkyTypes, sun_elevation \in SunElevationGrid,
          sun_azimuth \in SunAzimuthGrid :
        /\ args' = [sky_type |-> sky_type, sun_elevation |-> sun_elevation,
                    sun_azimuth |-> sun_azimuth, irradiance |-> Some(Unit)]
        /\ result' = [status |-> "ok",
                      value |-> sky_radiance_distribution(sky_discretisation,
                                    sky_type, sun_elevation, sun_azimuth)]
    /\ nEval' = TurtleSize
    /\ op' = "sky_radiance_distribution"
    /\ pc' = "done"
    /\ UNCHANGED <<turtles, weather>>

\* a call of sky_sources(sky_type, irradiance, ...)
Call_sky_sources ==
    /\ pc = "idle"
    /\ \E sky_type \in SourceSkyTypes, irradiance \in Opt(TotalGrid),
          dhi \in {200}, sun_elevation \in SunElevationGrid,
          sun_azimuth \in SunAzimuthGrid :
        /\ args' = [sky_type |-> sky_type, irradiance |-> irradiance, dhi |-> dhi,
                    sun_elevation |-> sun_elevation, sun_azimuth |-> sun_azimuth]
        /\ result' = [status |-> "ok",
                      value |-> sky_sources(sky_type, irradiance, dhi,
                                            sun_elevation, sun_azimuth)]
    /\ nEval' = TurtleSize
    /\ op' = "sky_sources"
    /\ pc' = "done"
    /\ UNCHANGED <<turtles, weather>>

\* a call of sun_sources(irradiance, dates, ...) for dates of which one at
\* least has the sun up
Call_sun_sources ==
    /\ pc = "idle"
    /\ \E n \in 1..MaxDates, irradiance \in Opt(TotalGrid) :
        \E elevation \in TupleOf(SourceElevationGrid, n) :
            /\ \E t \in 1..n : elevation[t] > 0
            /\ args' = [dates |-> DatesOf(n), elevation |-> elevation,
                        irradiance |-> irradiance]
            /\ result' = [status |-> "ok",
                          value |-> sun_sources(irradiance, DatesOf(n), elevation,
                                                800, 800)]
    /\ nEval' = 0
    /\ op' = "sun_sources"
    /\ pc' = "done"
    /\ UNCHANGED <<turtles, weather>>

\* a call of sun_sky_sources(ghi, attenuation, model, normalisation, dates,
\* ...) for dates of which one at least has the sun up and light
Call_sun_sky_sources ==
    /\ pc = "idle"
    /\ \E n \in 1..MaxDates, model \in {"blended", "sun_soc"},
          normalisation \in Opt({Unit}), attenuation \in Opt({200}),
          direct \in {500} :
        \E elevation \in TupleOf(SourceElevationGrid, n),
           ghi \in Opt(TupleOf({400}, n)) :
            /\ \E t \in 1..n : elevation[t] > 0
            /\ IsNone(ghi) \/ IsNone(attenuation)
            /\ args' = [dates |-> DatesOf(n), elevation |-> elevation,
                        ghi |-> ghi, attenuation |-> attenuation,
                        direct |-> direct, model |-> model,
                        normalisation |-> normalisation]
            /\ result' = [status |-> "ok",
                          value |-> sun_sky_sources(DatesOf(n), elevation, ghi,
                                        None, attenuation, 800, direct, model,
                                        normalisation)]
    /\ nEval' = 0
    /\ op' = "sun_sky_sources"
    /\ pc' = "done"
    /\ UNCHANGED <<turtles, weather>>

\* SkyTurtle(discretisation_level): a new turtle
New_SkyTurtle ==
    /\ pc = "idle"
    /\ Len(turtles) < MaxTurtles
    /\ \E level \in 0..MaxTurtleLevel :
        /\ turtles' = Append(turtles, SkyTurtle(level))
        /\ args' = [discretisation_level |-> level]
    /\ result' = [status |-> "ok", value |-> Len(turtles) + 1]
    /\ op' = "SkyTurtle"
    /\ pc' = "done"
    /\ UNCHANGED <<nEval, weather>>

\* the effect of a method of the turtle self on the turtle and on its caller
Method(self, name, a, r) ==
    /\ turtles' = [turtles EXCEPT ![self] = r.self]
    /\ args' = a
    /\ result' = [status |-> r.status, value |-> r.value]
    /\ op' = name
    /\ pc' = "done"
    /\ UNCHANGED <<nEval, weather>>

\* a call of face_samples(iter) on a turtle
Call_face_samples ==
    /\ pc = "idle"
    /\ \E self \in 1..Len(turtles), iter \in Opt(IterGrid) :
        Method(self, "face_samples", [self |-> self, iter |-> iter],
               face_samples(turtles[self], iter))

\* a call of directional_irradiances(model, iter, ghi, ...) on a turtle
Call_SkyTurtle_directional_irradiances ==
    /\ pc = "idle"
    /\ \E self \in 1..Len(turtles), iter \in Opt(IterGrid),
          model \in SkyModels, nsky \in 1..MaxDates :
        Method(self, "SkyTurtle.directional_irradiances",
               [self |-> self, iter |-> iter, model |-> model, nsky |-> nsky],
               SkyTurtle_directional_irradiances(turtles[self], model, iter, nsky))

\* a call of sample_luminances(iter) on a turtle
Call_sample_luminances ==
    /\ pc = "idle"
    /\ \E self \in 1..Len(turtles), iter \in Opt(IterGrid) :
        Method(self, "sample_luminances", [self |-> self, iter |-> iter],
               sample_luminances(turtles[self], iter))

\* a call of display(property) on a turtle
Call_display ==
    /\ pc = "idle"
    /\ \E self \in 1..Len(turtles), property \in BOOLEAN :
        Method(self, "display", [self |-> self, property |-> property],
               SkyTurtle_display(turtles[self], property))

\* Weather(data_file, reader) and meteorology.weather.Weather(data_file):
\* the file holds the radiation of up to MaxRows hours
New_Weather ==
    /\ pc = "idle"
    /\ ~weather.built
    /\ \E class \in WeatherClasses, reader \in Readers, n \in 1..MaxRows :
       \E values \in TupleOf(RadiationGrid, n) :
        /\ class = "meteorology.weather.Weather" => reader = "septo3d_reader"
        /\ reader = "" => values = Constant(n, 0)
        /\ weather' = IF class = "Weather.Weather" THEN Weather(reader, values)
                      ELSE meteorology_Weather(values)
        /\ args' = [class |-> class, reader |-> reader, values |-> values]
    /\ result' = [status |-> "ok", value |-> <<>>]
    /\ op' = "Weather"
    /\ pc' = "done"
    /\ UNCHANGED <<nEval, turtles>>

\* the effect of a method of the Weather on it and on its caller
WeatherMethod(name, a, r) ==
    /\ weather' = r.self
    /\ args' = a
    /\ result' = [status |-> r.status, value |-> r.value]
    /\ op' = name
    /\ pc' = "done"
    /\ UNCHANGED <<nEval, turtles>>

\* a call of check(varnames, models, args)
Call_check ==
    /\ pc = "idle"
    /\ weather.built
    /\ weather.class = "Weather.Weather"
    /\ \E varnames \in SeqUpTo(CheckNames, MaxNames), models \in Opt(UserModels),
          arguments \in CheckArgs :
        WeatherMethod("check",
                      [varnames |-> varnames, models |-> models, args |-> arguments],
                      Weather_check(weather, varnames, models, arguments))

\* a call of light_sources(seq, what, irradiance=irradiance)
Call_light_sources ==
    /\ pc = "idle"
    /\ weather.built
    /\ weather.class = "Weather.Weather"
    /\ \E first \in 1..MaxRows, last \in 1..MaxRows, what \in RadiationNames,
          irradiance \in IrradianceKinds, elevation \in TupleOf(SunriseGrid, MaxRows),
          azimuth \in {180} :
        /\ first <= last
        /\ IF IsNone(weather.data) THEN TRUE
           ELSE last <= Len(Val(weather.data)["date"])
        /\ WeatherMethod("light_sources",
                         [first |-> first, last |-> last, what |-> what,
                          irradiance |-> irradiance, elevation |-> elevation,
                          azimuth |-> azimuth],
                         Weather_light_sources(weather, first, last, what, irradiance,
                                               elevation, azimuth))

\* a call of light_sources(seq, what) of meteorology.weather.Weather
Call_meteorology_light_sources ==
    /\ pc = "idle"
    /\ weather.built
    /\ weather.class = "meteorology.weather.Weather"
    /\ \E first \in 1..MaxRows, last \in 1..MaxRows, what \in RadiationNames,
          irradiance \in IrradianceKinds :
        /\ first <= last
        /\ last <= Len(Val(weather.data)["PPFD"])
        /\ WeatherMethod("meteorology.light_sources",
                         [first |-> first, last |-> last, what |-> what,
                          irradiance |-> irradiance],
                         meteorology_light_sources(weather, first, last, what,
                                                   irradiance))

\* the caller takes the result
Return ==
    /\ pc = "done"
    /\ pc' = "idle"
    /\ UNCHANGED <<turtles, weather>>
    /\ op' = "none"
    /\ args' = NoArgs
    /\ result' = [status |-> "none"]
    /\ nEval' = 0

Next ==
    \/ Call_aw_parameters
    \/ Call_cie_relative_luminance
    \/ Call_aw_relative_luminance
    \/ Call_directional_irradiances
    \/ Call_sun_position
    \/ Call_daylength
    \/ Call_angle
    \/ Call_sun_azimuth
    \/ Call_julian_date
    \/ Call_septo3d_reader
    \/ Call_all_weather_sky_aw_parameters
    \/ Call_sky_irradiances
    \/ Call_sky_radiance_distribution
    \/ Call_sky_sources
    \/ Call_sun_sources
    \/ Call_sun_sky_sources
    \/ Return

Spec == Init /\ [][Next]_vars

\* the life of sky turtles: built, then asked for samples, irradiances,
\* luminances and displays
NextTurtle ==
    \/ New_SkyTurtle
    \/ Call_face_samples
    \/ Call_SkyTurtle_directional_irradiances
    \/ Call_sample_luminances
    \/ Call_display
    \/ Return

SpecTurtle == Init /\ [][NextTurtle]_vars

\* the life of a Weather: built from a file, then checked and asked for
\* light sources
\* meteorology.weather.Weather(data_file, reader): the file holds up to
\* MaxRows hourly records of the columns the reader names
New_Weather_of ==
    /\ pc = "idle"
    /\ ~weather.built
    /\ \E columns \in FrameColumns, n \in 1..MaxRows :
        /\ weather' = meteorology_Weather_of(columns, n)
        /\ args' = [columns |-> columns, n |-> n]
    /\ result' = [status |-> "ok", value |-> <<>>]
    /\ op' = "Weather"
    /\ pc' = "done"
    /\ UNCHANGED <<nEval, turtles>>

\* a call of get(start, step=step, what=what) for hours of the data
Call_get ==
    /\ pc = "idle"
    /\ weather.built
    /\ \E start \in 1..MaxRows, step \in 1..MaxRows,
          what \in Opt(SeqUpTo(GetNames, MaxNames)), reversed \in SUBSET TwoConverters :
        /\ start + step - 1 <= Len(Val(weather.data)[weather.columns[1]])
        /\ WeatherMethod("get",
               [start |-> start, step |-> step, what |-> what, reversed |-> reversed],
               Weather_get(weather, start, step, what, reversed))

\* the life of a Weather of meteorology.weather: built from a file, then
\* asked for data
NextFrame ==
    \/ New_Weather_of
    \/ Call_get
    \/ Return

SpecFrame == Init /\ [][NextFrame]_vars

\* Weather(data_file) of either class on a septo3D file of hourly records
New_Weather_hourly ==
    /\ pc = "idle"
    /\ ~weather.built
    /\ \E class \in WeatherClasses, n \in 1..MaxHours :
        /\ weather' = IF class = "Weather.Weather"
                      THEN Weather("septo3d_reader", [i \in 1..n |-> i * S])
                      ELSE meteorology_Weather([i \in 1..n |-> i * S])
        /\ args' = [class |-> class, n |-> n]
    /\ result' = [status |-> "ok", value |-> <<>>]
    /\ op' = "Weather"
    /\ pc' = "done"
    /\ UNCHANGED <<nEval, turtles>>

\* a call of split_weather(time_step, t_deb, n_steps) with a time step of
\* an hour or more, from an hour before the data to their last hour
Call_split_weather ==
    /\ pc = "idle"
    /\ weather.built
    /\ \E time_step \in 1..MaxTimeStep, t_deb \in 0..MaxHours, n_steps \in 0..MaxSteps :
        WeatherMethod("split_weather",
            [time_step |-> time_step, t_deb |-> t_deb, n_steps |-> n_steps],
            split_weather(weather, time_step, t_deb, n_steps))

\* the life of a Weather whose data are split by time step
NextSplit ==
    \/ New_Weather_hourly
    \/ Call_split_weather
    \/ Return

SpecSplit == Init /\ [][NextSplit]_vars

NextWeather ==
    \/ New_Weather
    \/ Call_check
    \/ Call_light_sources
    \/ Call_meteorology_light_sources
    \/ Return

SpecWeather == Init /\ [][NextWeather]_vars

(***************************************************************************)
(* Properties.                                                             *)
(***************************************************************************)
Returned(f) == pc = "done" /\ op = f

\* C1: aw_parameters selects bin 0 for every clearness <= 1.065, bin 7 for
\* every clearness > 6.2, and otherwise the unique bin k with
\* edge[k] < clearness <= edge[k+1] (edges numbered from 0), so a clearness
\* equal to an edge selects the lower of the two adjacent bins.
C1_BinSelection ==
    Returned("aw_parameters") =>
        LET v == args.clearness
            k == result.value.index
        IN  /\ k \in 0..7
            /\ v <= 1065 => k = 0
            /\ v > 6200 => k = 7
            /\ (v > 1065 /\ v <= 6200) => (bins[k + 1] < v /\ v <= bins[k + 2])

\* a clearness on an inner edge (1.23) selected the lower bin
C1_Witness ==
    /\ Returned("aw_parameters")
    /\ args.clearness = 1230
    /\ result.value.index = 1

\* the linear fit p1 + p2*z + brightness*(p3 + p4*z) of bin k (0-based)
LinearFit(p1, p2, p3, p4, k, z, br) ==
    RDiv(p1[k + 1] + RDiv(p2[k + 1] * z, S)
            + RDiv(br * (p3[k + 1] + RDiv(p4[k + 1] * z, S)), S), 10)

\* C2: c and d come from the exponential formula with bin 0's constants
\* exactly when clearness <= 1.065 (the inputs that select bin 0); a, b and e
\* are always the linear fit over the selected bin's constants, and so are c
\* and d when clearness > 1.065.
C2_SpecialCase ==
    Returned("aw_parameters") =>
        LET v == args.clearness
            z == args.z
            br == args.brightness
            r == result.value
            k == r.index
        IN  /\ r.a = LinearFit(a1, a2, a3, a4, k, z, br)
            /\ r.b = LinearFit(b1, b2, b3, b4, k, z, br)
            /\ r.e = LinearFit(e1, e2, e3, e4, k, z, br)
            /\ (v <= 1065) <=> (k = 0)
            /\ v <= 1065 =>
                /\ r.c = Exp(Pow(Mul(br, 2800 + Mul(600, z)), 1238)) - 1000
                /\ r.d = -Exp(Mul(br, 1873 + Mul(630, z))) + 974 + Mul(281, br)
            /\ v > 1065 =>
                /\ r.c = LinearFit(c1, c2, c3, c4, k, z, br)
                /\ r.d = LinearFit(d1, d2, d3, d4, k, z, br)

\* clearness exactly 1.065 took the exponential branch, whose c differs from
\* the linear fit of bin 0
C2_Witness ==
    /\ Returned("aw_parameters")
    /\ args.clearness = 1065
    /\ result.value.c = aw_c_overcast(args.z, args.brightness)
    /\ result.value.c # LinearFit(c1, c2, c3, c4, 0, args.z, args.brightness)

\* C3: cie_relative_luminance asked for 'clear_sky' without sun_zenith or
\* without sun_azimuth raises before any luminance is evaluated; asked for
\* 'clear_sky' with phi and the whole sun position it does not raise.
C3_ClearSkyNeedsSun ==
    (Returned("cie_relative_luminance") /\ args.type = "clear_sky") =>
        /\ (IsNone(args.sun_zenith) \/ IsNone(args.sun_azimuth)) =>
               (result.status = "ValueError" /\ nEval = 0)
        /\ (~IsNone(args.sun_zenith) /\ ~IsNone(args.sun_azimuth) /\ ~IsNone(args.phi)) =>
               (result.status = "ok" /\ nEval = 1)

\* a clear sky asked without sun zenith was refused with nothing evaluated
C3_Witness ==
    /\ Returned("cie_relative_luminance")
    /\ args.type = "clear_sky"
    /\ IsNone(args.sun_zenith)
    /\ ~IsNone(args.sun_azimuth)
    /\ ~IsNone(args.phi)
    /\ result.status = "ValueError"
    /\ nEval = 0

\* C4: directional_irradiances raises ValueError, with no luminance
\* evaluated and no irradiance returned, when the model is 'all_weather' and
\* one of ghi, sun_zenith, sun_azimuth, clearness, brightness is None, and
\* when the model is none of those it implements.
C4_RejectsBeforeEvaluating ==
    Returned("directional_irradiances") =>
        LET missing == \E x \in {args.ghi, args.sun_zenith, args.sun_azimuth,
                                 args.clearness, args.brightness} : IsNone(x)
            refused == result.status = "ValueError" /\ nEval = 0 /\ result.value = <<>>
        IN  /\ (args.model = "all_weather" /\ missing) => refused
            /\ args.model \notin {"all_weather", "cie_soc"} => refused

\* an all-weather request for two directions without clearness was refused
C4_Witness ==
    /\ Returned("directional_irradiances")
    /\ args.model = "all_weather"
    /\ Len(args.dirs) = 2
    /\ IsNone(args.clearness)
    /\ ~IsNone(args.ghi)
    /\ result.status = "ValueError"
    /\ nEval = 0

\* the sun of a call is above the horizon (sun_zenith in degrees)
SunIsUp(sun_zenith) == sun_zenith < 90

\* C5: with the sun above the horizon, the relative luminance of the zenith
\* element (theta = 0) is 1 for the CIE skies 'soc', 'uoc', 'clear_sky' and
\* for the all-weather sky.
C5_ZenithIsOne ==
    /\ (Returned("cie_relative_luminance") /\ result.status = "ok"
            /\ args.theta = 0
            /\ (IsNone(args.sun_zenith) \/ SunIsUp(Val(args.sun_zenith))))
        => result.value = S
    /\ (Returned("aw_relative_luminance") /\ args.theta = 0
            /\ SunIsUp(args.sun_zenith))
        => result.value = S

\* the zenith of a clear CIE sky with the sun at 60 degrees was evaluated
C5_Witness ==
    /\ Returned("cie_relative_luminance")
    /\ args.type = "clear_sky"
    /\ args.theta = 0
    /\ args.sun_zenith = Some(60)
    /\ result.status = "ok"
    /\ result.value = S

\* C6: the relative luminance of a sky direction is never negative, for the
\* CIE skies and for the all-weather sky (sun above the horizon).
C6_NonNegative ==
    /\ (Returned("cie_relative_luminance") /\ result.status = "ok")
        => result.value >= 0
    /\ (Returned("aw_relative_luminance") /\ SunIsUp(args.sun_zenith))
        => result.value >= 0

\* the dates of the rows of a frame, in order
IndexOf(rows) == [i \in 1..Len(rows) |-> rows[i].t]

\* C7: sun_position with filter_night returns exactly the dates whose sun
\* elevation is > 0, once each and in input order, and without it one row per
\* date in input order; each row is indexed by the date it was computed for.
C7_NightFilter ==
    (Returned("sun_position") /\ result.status = "ok") =>
        LET Up(t) == args.elevation[t] > 0
            rows == result.value
        IN  /\ IndexOf(rows) = IF args.filter_night
                               THEN SelectSeq(args.dates, Up) ELSE args.dates
            /\ \A i \in 1..Len(rows) :
                   /\ rows[i].elevation = args.elevation[rows[i].t]
                   /\ rows[i].zenith = 90 - args.elevation[rows[i].t]

\* a sun on the horizon at the first date was filtered, the second date kept
C7_Witness ==
    /\ Returned("sun_position")
    /\ args.filter_night
    /\ args.elevation = <<0, 30>>
    /\ result.status = "ok"
    /\ IndexOf(result.value) = <<2>>

\* C8: outside twilight, every row of sky_irradiances has sun elevation > 0
\* and ghi > 0.
C8_RowsHaveSunAndLight ==
    (Returned("sky_irradiances") /\ result.status = "ok" /\ ~result.twilight) =>
        \A i \in 1..Len(result.value) :
            result.value[i].elevation > 0 /\ result.value[i].ghi > 0

\* C9: with ghi supplied, every date whose sun is below the horizon and
\* whose ghi is > 0 is in the result as a twilight row (dni = 0, dhi = ghi,
\* clearness and brightness missing), whatever the sun at the other dates.
C9_TwilightRowsRetained ==
    (Returned("sky_irradiances") /\ result.status = "ok" /\ ~IsNone(args.ghi)) =>
        \A t \in 1..Len(args.dates) :
            (args.elevation[t] < 0 /\ Val(args.ghi)[t] > 0) =>
                \E i \in 1..Len(result.value) :
                    LET row == result.value[i]
                    IN  /\ row.t = t
                        /\ row.dni = 0
                        /\ row.dhi = Val(args.ghi)[t]
                        /\ row.clearness = Missing
                        /\ row.brightness = Missing

\* C10: every row of sky_irradiances has dhi <= ghi and dni >= 0.
C10_DhiLeGhiDniNonNeg ==
    (Returned("sky_irradiances") /\ result.status = "ok") =>
        \A i \in 1..Len(result.value) :
            result.value[i].dhi <= result.value[i].ghi /\ result.value[i].dni >= 0

\* both ghi and dhi were supplied to the call
BothSupplied == ~IsNone(args.ghi) /\ ~IsNone(args.dhi)

\* the sun is above the horizon at some date of the call
SomeDay == \E t \in 1..Len(args.dates) : args.elevation[t] > 0

\* C11: with ghi and dhi both supplied for a time sequence that has a date
\* with the sun above the horizon, sky_irradiances returns a result, and
\* each of its rows for a date t with the sun above the horizon carries the
\* ghi and the dhi supplied at t and dni = (ghi_t - dhi_t) / sin(elevation_t),
\* also when other dates of the sequence are removed as night.
C11_RowsCarryTheirDate ==
    (Returned("sky_irradiances") /\ BothSupplied) =>
        /\ SomeDay => result.status = "ok"
        /\ \A i \in 1..Len(result.value) :
               LET row == result.value[i]
                   t == row.t
               IN  row.elevation > 0 =>
                       /\ row.elevation = args.elevation[t]
                       /\ row.ghi = Val(args.ghi)[t]
                       /\ row.dhi = Val(args.dhi)[t]
                       /\ row.dni = normal_irradiance(
                               Val(args.ghi)[t] - Val(args.dhi)[t], args.elevation[t])

\* the horizontal projection of a row's direct irradiance
SunHorizontal(row) == horizontal_irradiance(row.dni, row.elevation)

\* C12: every row of sky_irradiances (whose irradiances come from
\* actual_sky_irradiances, from the supplied ghi and dhi, or from the
\* twilight branch) has ghi = dhi + dni * sin(elevation), to the unit of the
\* irradiances: a sky of total dhi and a sun of horizontal irradiance
\* dni * sin(elevation) add up to the row's ghi.
C12_EnergyBudget ==
    (Returned("sky_irradiances") /\ result.status = "ok") =>
        \A i \in 1..Len(result.value) :
            LET row == result.value[i]
            IN  Abs(row.ghi - (row.dhi + SunHorizontal(row))) <= 1

\* a row decomposed by actual_sky_irradiances has direct and diffuse parts
\* that add up to its ghi
C12_Witness ==
    /\ Returned("sky_irradiances")
    /\ result.status = "ok"
    /\ IsNone(args.dhi)
    /\ \E i \in 1..Len(result.value) :
           LET row == result.value[i]
           IN  /\ row.elevation = 60
               /\ row.dni > 0
               /\ row.dhi > 0
               /\ row.ghi = row.dhi + SunHorizontal(row)

\* the dhi of the sky state that has the given ghi, clearness and sun zenith
\* (degrees, sun above the horizon): clearness(dni, dhi, sun_zenith) gives
\* (dhi + dni) / dhi = clearness * (1 + 1.041 z^3) - 1.041 z^3, and
\* ghi = dhi + dni * cos(z)
sky_state_dhi(ghi, cl, sun_zenith) ==
    LET z == Radians(sun_zenith)
        kz3 == Mul(1041, Mul(z, Mul(z, z)))
        q == Mul(cl, S + kz3) - kz3
    IN  RDiv(ghi * S, S + Mul(q - S, Cos(z)))

\* C13: the irradiances directional_irradiances returns for the directions
\* of the sky sum to the diffuse horizontal irradiance dhi of the sky state
\* (to the rounding of one unit per direction).
C13_SumsToDhi ==
    (Returned("directional_irradiances") /\ result.status = "ok"
            /\ args.dirs # <<>>) =>
        LET dhi == sky_state_dhi(Val(args.ghi), Val(args.clearness),
                                 Val(args.sun_zenith))
        IN  Abs(SumSeq(result.value) - S * dhi) <= Len(args.dirs) * Val(args.ghi)

\* the total irradiance of a list of sources
SumIrradiance(sources) ==
    SumSeq([i \in 1..Len(sources) |-> sources[i].irradiance])

OnePerFace(sources) ==
    /\ Len(sources) = Len(sky_discretisation)
    /\ \A i \in 1..Len(sources) :
           /\ sources[i].elevation = sky_discretisation[i].elevation
           /\ sources[i].azimuth = sky_discretisation[i].azimuth

GeometryOf(turtle) == turtle_dome(turtle.discretisation_level)

AllPositive(sources) ==
    \A i \in 1..Len(sources) :
        sources[i].elevation > 0 /\ sources[i].irradiance > 0

\* C17: every source light_sources returns, of the sun and of the sky, has
\* an elevation above 0 and an irradiance above 0.
C17_SourcesArePositive ==
    (Returned("light_sources") /\ result.status = "ok") =>
        AllPositive(result.value.sun) /\ AllPositive(result.value.sky)

\* C20: a call of check on a Weather that holds data returns one boolean per
\* requested name, in request order, True exactly when the name is a column
\* of the data when the call returns.
C20_CheckAnswersPerName ==
    (Returned("check") /\ ~IsNone(weather.data)) =>
        /\ result.status = "ok"
        /\ Len(result.value) = Len(args.varnames)
        /\ \A i \in 1..Len(args.varnames) :
               result.value[i] = (args.varnames[i] \in DOMAIN Val(weather.data))

\* a supplied column has a negative value
HasNegative(column) == ~IsNone(column) /\ \E t \in 1..Len(Val(column)) : Val(column)[t] < 0

\* C18: sun_position called with a latitude outside [-90, 90], and
\* sky_irradiances called with a negative ghi or dhi, raise an error and
\* return no result.
C18_RejectsOutOfRange ==
    /\ (Returned("sun_position") /\ (args.latitude < -90 \/ args.latitude > 90))
           => result.status # "ok"
    /\ (Returned("sky_irradiances") /\ (HasNegative(args.ghi) \/ HasNegative(args.dhi)))
           => result.status # "ok"

\* C19: daylength does not return an undefined value: its result is a number
\* of hours in [0, 24] unless it raises.
C19_DaylengthIsDefined ==
    (Returned("daylength") /\ result.status = "ok") =>
        /\ ~result.value.nan
        /\ result.value.hours >= 0
        /\ result.value.hours <= 24 * S

\* a call of directional_irradiances of a turtle with a model of the module
TurtleIrradiancesCalled ==
    Returned("SkyTurtle.directional_irradiances")
        /\ args.model \in {"all_weather", "cie_soc"}

\* C21: SkyTurtle.directional_irradiances returns the sample directions of
\* face_samples and one irradiance per sample direction, in the order of the
\* tags.
C21_OneIrradiancePerSample ==
    TurtleIrradiancesCalled =>
        /\ result.status = "ok"
        /\ result.value.directions
               = face_samples(turtles[args.self], args.iter).value.directions
        /\ result.value.tags = face_samples(turtles[args.self], args.iter).value.tags
        /\ Len(result.value.irradiances) = Len(result.value.tags)

\* C22: the table of SkyTurtle.directional_irradiances has one entry per
\* distinct tag, the sum of the irradiances of the samples of the tag, so
\* that the faces total what the samples total.
C22_FaceTableSumsSamples ==
    TurtleIrradiancesCalled =>
        /\ result.status = "ok"
        /\ DOMAIN result.value.irr_faces
               = {result.value.tags[i] : i \in 1..Len(result.value.tags)}
        /\ \A tag \in DOMAIN result.value.irr_faces :
               result.value.irr_faces[tag]
                   = TagSum(result.value.tags, result.value.irradiances, tag)

\* C23: sky_luminance.angle returns the angle in [0, Pi] between its two
\* vectors, the value all_weather_sky.angle computes, also for vectors more
\* than 90 degrees apart.
C23_AngleIsTrueAngle ==
    Returned("angle") =>
        /\ result.value \in 0..Pi
        /\ result.value = all_weather_sky_angle(args.a, args.b)

\* the hour angle of the call of sun_azimuth
AzimuthHourAngle == hour_angle(args.hUTC, args.dayofyear, args.year, args.longitude)

\* the elevation of the call of sun_azimuth is at or above the critical one
AzimuthAbove ==
    AboveCritical(
        RadiansOf(sun_elevation_at(args.hUTC, args.dayofyear, args.year,
                                args.latitude, args.longitude)),
        critical_elevation(declination_at(args.hUTC, args.dayofyear, args.year),
                           args.latitude))

Available(columns, p) ==
    \/ p \in Range(columns)
    \/ /\ HasSynonyms(p)
       /\ Range(Val(meteorological_variables[p].synonym)) \cap Range(columns) # {}

Resolvable(columns, w) ==
    \/ Available(columns, w)
    \/ /\ w \in DOMAIN meteorological_variables
       /\ \E i \in 1..Len(meteorological_variables[w].convert) :
              \A p \in Range(meteorological_variables[w].convert[i].names) :
                  Available(columns, p)

\* the first name asked that cannot be had from the columns, if any
FirstMissing(columns, what) ==
    IF \A i \in 1..Len(what) : Resolvable(columns, what[i]) THEN None
    ELSE Some(what[CHOOSE i \in 1..Len(what) :
                  /\ ~Resolvable(columns, what[i])
                  /\ \A j \in 1..(i - 1) : Resolvable(columns, what[j])])

\* what get owes for the names what of a frame of the columns: the columns
\* asked in their order, or the ValueError of the first name it cannot have
GetAnswers(columns, what, status, value) ==
    IF IsNone(FirstMissing(columns, what))
    THEN status = "ok" => value.columns = what
    ELSE /\ status = "ValueError"
         /\ value = <<IF Val(FirstMissing(columns, what)) \in DOMAIN meteorological_variables
                      THEN "Cannot find nor estimate variable"
                      ELSE "unknown variable">>

\* C25: Weather.get returns the columns asked in the order asked, leaves
\* the data of the Weather as they were, and raises ValueError for a name
\* that is neither a column nor a known variable ('unknown variable') or
\* that is known but has neither a synonym column nor a converter that
\* applies ('Cannot find nor estimate variable').
C25_GetAnswersOrValueError ==
    [][(pc = "idle" /\ op' = "get" /\ ~IsNone(args'.what)) =>
          /\ weather' = weather
          /\ GetAnswers(weather.columns, Val(args'.what), result'.status, result'.value)]_vars

\* C26: Weather.get resolves every known variable for which a synonym
\* column or a converter with its priors among the columns exists: the call
\* returns the column, that of the synonym where there is one, also for
\* the variables without a synonym list and the converters of PAR.
C26_ResolvesEveryKnownVariable ==
    (/\ Returned("get")
     /\ ~IsNone(args.what)
     /\ \A i \in 1..Len(Val(args.what)) : Resolvable(weather.columns, Val(args.what)[i]))
            => /\ result.status = "ok"
               /\ \A w \in Range(Val(args.what)) :
                      (w \notin Range(weather.columns) /\ HasSynonyms(w)
                          /\ SynonymColumns(weather, w) # <<>>)
                        => \E s \in Range(SynonymColumns(weather, w)) :
                               result.value.data[w]
                                   = SubSeq(Val(weather.data)[s], args.start,
                                            args.start + args.step - 1)

\* C27: julian_date is continuous over the years of the almanac: the first
\* day of a year is one day (24 hours) after the last day of the year
\* before, day 366 of a year divisible by 4 and day 365 of another, and
\* any other day is one day after the day before.
C27_JulianDateContinuous ==
    Returned("julian_date") =>
        IF args.dayofyear = 1
        THEN args.year > MinYear =>
                 result.value = julian_date(args.hUTC, LastDay(args.year - 1),
                                            args.year - 1) + 24
        ELSE result.value = julian_date(args.hUTC, args.dayofyear - 1, args.year) + 24

\* the first day of the year that follows a leap year
C27_Witness ==
    /\ Returned("julian_date")
    /\ args.dayofyear = 1
    /\ args.year = 2001
    /\ result.value = julian_date(args.hUTC, 366, 2000) + 24

\* the date of a record: hour 0 of the next calendar day for hhmm = 2400,
\* its own day and hour otherwise
CalendarDate(record) ==
    IF record.hhmm = 2400
    THEN (IF record.Jour = DaysInYear(record.An)
          THEN [year |-> record.An + 1, dayofyear |-> 1, hour |-> 0]
          ELSE [year |-> record.An, dayofyear |-> record.Jour + 1, hour |-> 0])
    ELSE [year |-> record.An, dayofyear |-> record.Jour, hour |-> record.hhmm \div 100]

\* the date s is later than the date r
Later(r, s) ==
    \/ r.year < s.year
    \/ r.year = s.year /\ r.dayofyear < s.dayofyear
    \/ r.year = s.year /\ r.dayofyear = s.dayofyear /\ r.hour < s.hour

\* C28: septo3d_reader gives a record stamped 2400 hour 0 of the next
\* calendar day, the first day of the next year only on the last day of the
\* year, and every other record its own date, so that the dates of a file
\* in chronological order are strictly increasing.
C28_NextCalendarDay ==
    Returned("septo3d_reader") =>
        /\ \A i \in 1..Len(args.records) : result.value[i] = CalendarDate(args.records[i])
        /\ \A i \in 1..(Len(args.records) - 1) : Later(result.value[i], result.value[i + 1])

\* C29: all_weather_sky.aw_parameters(sun_elevation, clearness, brightness)
\* returns the coefficients a, b, c, d, e that sky_luminance.aw_parameters
\* returns for the zenith angle z = pi/2 - sun_elevation and the same
\* clearness and brightness.
C29_SameCoefficients ==
    Returned("all_weather_sky.aw_parameters") =>
        result.value = aw_parameters(HalfPi - args.sun_elevation, args.clearness,
                                     args.brightness)

\* an overcast sky with a low sun, where c and d come from the special case
C29_Witness ==
    /\ Returned("all_weather_sky.aw_parameters")
    /\ args.clearness <= 1065
    /\ args.sun_elevation = 524
    /\ result.value.c = aw_c_overcast(1047, args.brightness)

\* the hours of the records of the Weather
RecordHours == 1..FrameLength(Val(weather.data))

\* C30: split_weather returns n_steps windows of hourly data, the k-th with
\* the records from t_deb + k * time_step to t_deb + (k + 1) * time_step - 1
\* hours (k from 0); the windows are disjoint and in chronological order,
\* and every record from t_deb to before t_deb + n_steps * time_step is in
\* exactly one of them.
C30_WindowsPartition ==
    Returned("split_weather") =>
        /\ result.status = "ok"
        /\ Len(result.value) = args.n_steps
        /\ \A k \in 1..args.n_steps :
               Range(result.value[k].index)
                   = {h \in RecordHours :
                         /\ h >= args.t_deb + (k - 1) * args.time_step
                         /\ h <= args.t_deb + k * args.time_step - 1}
        /\ \A k \in 1..args.n_steps, l \in 1..args.n_steps :
               k < l => \A h \in Range(result.value[k].index),
                           g \in Range(result.value[l].index) : h < g
        /\ \A h \in RecordHours :
               (h >= args.t_deb /\ h < args.t_deb + args.n_steps * args.time_step)
                   => Cardinality({k \in 1..args.n_steps :
                                      h \in Range(result.value[k].index)}) = 1

\* three windows of two hours that hold the six records of the file
C30_Witness ==
    /\ Returned("split_weather")
    /\ args.time_step = 2
    /\ args.n_steps = 3
    /\ args.t_deb = 1
    /\ \A k \in 1..3 : result.value[k].index = <<2 * k - 1, 2 * k>>

====
